---- MODULE Spec2Model ----
(***************************************************************************)
(* A model of the e-mail quiz service (src/main.py, src/email_service.py,  *)
(* src/grading_service.py, src/config.py): the question selector, the      *)
(* response classifier and the scheduler loop with its persisted stores.   *)
(***************************************************************************)
EXTENDS Integers, Sequences, FiniteSets, TLC

VARIABLES
    num_questions,   \* len(self.questions_df): the bank holds ids 0..num_questions-1
    state,           \* self.state, the session dict (keys may be missing)
    scores,          \* self.scores: question id -> list of scores
    progress,        \* self.progress: list of progress entries
    state_file,      \* config.STATE_FILE on disk (None: no file)
    scores_file,     \* config.SCORES_FILE on disk
    progress_file,   \* config.PROGRESS_FILE on disk
    mailbox,         \* the messages the mail server holds, in the order it lists them
    next_id,         \* the next message id the mail server hands out
    now,             \* the clock, in milliseconds
    pc,              \* where the loop of run() is
    event,           \* what the last step did
    selections,      \* history: every id the selector returned, in order
    since_reset,     \* history: the ids returned since the recency buffer was last emptied
    last_delivery,   \* history: time of the last successful question delivery of this run
    runs,            \* history: how many times the process has been started
    iterations,      \* history: how many loop iterations were begun after the first, over all runs
    response,        \* what the last call of _check_for_response returned
    persisted_log,   \* history: the last parsable content of the progress file
    model_reply,     \* grade_response: what generate_content did, while the call runs (else None)
    grade_result     \* grade_response: what it returned, while its caller holds it (else None)

vars == <<num_questions, state, scores, progress, state_file, scores_file,
          progress_file, mailbox, next_id, now, pc, event, selections,
          since_reset, last_delivery, runs, iterations, response, persisted_log,
          model_reply, grade_result>>

----------------------------------------------------------------------------
(* Python values *)

\* Optional[T]: None is the empty sequence, a value v is <<v>>.
None == <<>>
Some(v) == <<v>>
Val(o) == o[1]

\* dict.get(key): None for a missing key.
Get(d, k) == IF k \in DOMAIN d THEN d[k] ELSE None
\* dict.get(key, []) for the list-valued keys.
GetList(d, k) == IF k \in DOMAIN d THEN d[k] ELSE <<>>
\* d[key] = value
Put(d, k, v) == [f \in (DOMAIN d) \cup {k} |-> IF f = k THEN v ELSE d[f]]

Range(s) == {s[i] : i \in 1..Len(s)}
Min(a, b) == IF a <= b THEN a ELSE b
Max(a, b) == IF a >= b THEN a ELSE b

RECURSIVE SumSeq(_)
SumSeq(s) == IF s = <<>> THEN 0 ELSE s[1] + SumSeq(Tail(s))

\* The last n elements of a list: lst[-n:]
LastN(s, n) == IF Len(s) <= n THEN s ELSE SubSeq(s, Len(s) - n + 1, Len(s))

----------------------------------------------------------------------------
(* Program constants *)

RECENT_CAP == 10                 \* [-10:] on recent_questions
SENT_IDS_CAP == 10               \* [-10:] on sent_message_ids
QUESTION_INTERVAL_MINUTES == 10
POLL_INTERVAL_SECONDS == 30
MsPerMinute == 60000
MsPerSecond == 1000
buffer_ms == 2000
AutomatedMs == 10000
PerfectScore == 100              \* average of a question never answered
WeightBase == 101

(* Bounds of the model *)

MaxBank == 3        \* banks of 1..MaxBank questions, every draw explored
WideBank == 11      \* one bank wider than the recency buffer
WideDraw == 1       \* in the wide bank the draw picks among the first WideDraw candidates
MaxExtra == 2       \* selector calls explored beyond one pass over the bank
MaxLoopBank == 2    \* the loop is explored with banks of 1..MaxLoopBank questions
MaxMessages == 4    \* messages the mail server accepts in one exploration
MaxIterations == 2  \* loop iterations begun after the first in one exploration
WideIterations == 22  \* loop iterations in the exploration of the wide bank
WideMessages == 34    \* messages the mail server accepts there
MaxRuns == 2        \* process starts in one exploration
MaxInbound == 1     \* messages that arrive from outside in one exploration
FileIterations == 4 \* loop iterations begun after the first where the files are explored
FileMessages == 7   \* messages the mail server accepts there

----------------------------------------------------------------------------
(* ScoreLedger *)

\* question_idx not in self.scores or len(self.scores[question_idx]) == 0
Unanswered(sc, idx) == idx \notin DOMAIN sc \/ Len(sc[idx]) = 0

\* A slip: a question never answered averages zero.
GetAverageScoreFromZero(sc, idx) ==
    IF Unanswered(sc, idx) THEN <<0, 1>>
    ELSE <<SumSeq(sc[idx]), Len(sc[idx])>>

\* _get_average_score as the fraction <<numerator, denominator>>
GetAverageScore(sc, idx) ==
    IF Unanswered(sc, idx) THEN <<PerfectScore, 1>>
    ELSE <<SumSeq(sc[idx]), Len(sc[idx])>>

\* _record_score (the in-memory part)
RecordScore(sc, idx, score) ==
    IF idx \notin DOMAIN sc THEN Put(sc, idx, <<score>>)
    ELSE [sc EXCEPT ![idx] = Append(@, score)]

----------------------------------------------------------------------------
(* Selector: _select_random_question *)

BankIds(n) == 0..(n - 1)
BankSeq(n) == [i \in 1..n |-> i - 1]

\* A slip: the recency filter is dropped.
NotRecentUnfiltered(st, n) == BankSeq(n)

\* self.questions_df[~self.questions_df.index.isin(recent)], in bank order
NotRecent(st, n) ==
    LET recent == Range(GetList(st, "recent_questions"))
    IN  SelectSeq(BankSeq(n), LAMBDA i : i \notin recent)

\* "If all questions have been asked recently, reset"
ResetNeeded(st, n) == Len(NotRecent(st, n)) = 0
Available(st, n) == IF ResetNeeded(st, n) THEN BankSeq(n) ELSE NotRecent(st, n)
AfterReset(st, n) ==
    IF ResetNeeded(st, n) THEN Put(st, "recent_questions", <<>>) ELSE st

UnansweredIndices(st, sc, n) ==
    SelectSeq(Available(st, n), LAMBDA i : Unanswered(sc, i))

\* A slip: the weight is (100 - avg_score) ** 2 and has no floor.
WeightFromHundred(sc, idx) ==
    LET avg == GetAverageScore(sc, idx)
        num == (PerfectScore * avg[2] - avg[1]) * (PerfectScore * avg[2] - avg[1])
    IN  <<num, avg[2] * avg[2]>>

\* weight = max(1.0, (101.0 - avg_score) ** 2), as the fraction <<num, den>>
Weight(sc, idx) ==
    LET avg == GetAverageScore(sc, idx)
        num == (WeightBase * avg[2] - avg[1]) * (WeightBase * avg[2] - avg[1])
        den == avg[2] * avg[2]
    IN  IF num >= den THEN <<num, den>> ELSE <<1, 1>>

\* The ids a draw can return: random.choice over the unanswered candidates when
\* there are any, else random.choices over the candidates of positive weight.
Drawable(st, sc, n) ==
    IF Len(UnansweredIndices(st, sc, n)) > 0
    THEN UnansweredIndices(st, sc, n)
    ELSE SelectSeq(Available(st, n), LAMBDA i : Weight(sc, i)[1] > 0)

\* A slip: the slice keeps the first 10 entries instead of the last 10.
PushRecentKeepOldest(recent, idx) ==
    SubSeq(Append(recent, idx), 1, Min(Len(recent) + 1, RECENT_CAP))

\* (recent_questions + [question_idx])[-10:]
PushRecent(recent, idx) == LastN(Append(recent, idx), RECENT_CAP)

\* The session dict after the selector returned idx.
Selected(st, n, idx) ==
    LET st1 == AfterReset(st, n)
    IN  Put(st1, "recent_questions", PushRecent(GetList(st1, "recent_questions"), idx))

\* The selector raises: no candidate is unanswered, the list of weights is
\* empty, and "1.0 / len(weights)" divides by zero
SelectorRaises(st, sc, n) ==
    Len(UnansweredIndices(st, sc, n)) = 0 /\ Len(Available(st, n)) = 0

\* A slip: the empty draw yields id 0 and the buffer takes it.
RaisedSelectionKeepsId(st, n) == Selected(st, n, 0)

\* The session dict when the selector raised
RaisedSelection(st, n) == AfterReset(st, n)

\* The draw explored over the first w candidates
DrawsAmong(st, sc, n, w) ==
    LET d == Drawable(st, sc, n)
    IN  {d[k] : k \in 1..Min(Len(d), w)}
\* How many of the first candidates a selector call is explored over.
DrawWidth(n) == IF n <= MaxBank THEN n ELSE WideDraw
Draws(st, sc, n) == DrawsAmong(st, sc, n, DrawWidth(n))

----------------------------------------------------------------------------
(* Text: a Python str is a sequence of one-character strings *)

NL == "\n"
IsSpace(c) == c \in {" ", "\n", "\t", "\r"}

UpperLetters == <<"A", "B", "C", "D", "E", "F", "G", "H", "I", "J", "K", "L", "M",
                  "N", "O", "P", "Q", "R", "S", "T", "U", "V", "W", "X", "Y", "Z">>
LowerLetters == <<"a", "b", "c", "d", "e", "f", "g", "h", "i", "j", "k", "l", "m",
                  "n", "o", "p", "q", "r", "s", "t", "u", "v", "w", "x", "y", "z">>

\* str.lower()
LowerChar(c) ==
    IF \E k \in 1..Len(UpperLetters) : UpperLetters[k] = c
    THEN LowerLetters[CHOOSE k \in 1..Len(UpperLetters) : UpperLetters[k] = c]
    ELSE c
Lower(t) == [i \in 1..Len(t) |-> LowerChar(t[i])]

\* t[:n]
Take(t, n) == SubSeq(t, 1, Min(n, Len(t)))
\* t[i:]
From(t, i) == SubSeq(t, i, Len(t))

StartsAt(t, i, pat) ==
    /\ i + Len(pat) - 1 <= Len(t)
    /\ SubSeq(t, i, i + Len(pat) - 1) = pat
\* pat in t
Contains(t, pat) == pat = <<>> \/ \E i \in 1..Len(t) : StartsAt(t, i, pat)

\* str.strip()
RECURSIVE LStrip(_)
LStrip(t) == IF t # <<>> /\ IsSpace(t[1]) THEN LStrip(Tail(t)) ELSE t
RECURSIVE RStrip(_)
RStrip(t) ==
    IF t # <<>> /\ IsSpace(t[Len(t)]) THEN RStrip(SubSeq(t, 1, Len(t) - 1)) ELSE t
Strip(t) == RStrip(LStrip(t))

\* str.split(): the maximal runs of non-whitespace characters, in order
RECURSIVE Split(_)
Split(t) ==
    LET u == LStrip(t)
    IN  IF u = <<>> THEN <<>>
        ELSE LET stops == {i \in 1..Len(u) : IsSpace(u[i])}
                 end == IF stops = {} THEN Len(u) + 1
                        ELSE CHOOSE i \in stops : \A j \in stops : i <= j
             IN  <<SubSeq(u, 1, end - 1)>> \o Split(From(u, end))

\* re.sub(r'^>.*$', '', text, flags=re.MULTILINE): a line that starts with ">"
\* loses its content (its newline stays).
RECURSIVE StripQuoted(_)
StripQuoted(t) ==
    LET breaks == {i \in 1..Len(t) : t[i] = NL}
        end == IF breaks = {} THEN Len(t) + 1
               ELSE CHOOSE i \in breaks : \A j \in breaks : i <= j
        line == SubSeq(t, 1, end - 1)
        kept == IF line # <<>> /\ line[1] = ">" THEN <<>> ELSE line
    IN  IF end > Len(t) THEN kept
        ELSE kept \o <<NL>> \o StripQuoted(From(t, end + 1))

OnPrefix == <<"O", "n", " ">>
WrotePat == <<" ", "w", "r", "o", "t", "e", ":">>

\* re.sub(r'On .+ wrote:.*$', '', text, flags=re.MULTILINE | re.DOTALL): from
\* the first "On " that has " wrote:" at least one character later, to the end.
StripAttribution(t) ==
    LET starts == {i \in 1..Len(t) :
                      /\ StartsAt(t, i, OnPrefix)
                      /\ \E j \in (i + 4)..Len(t) : StartsAt(t, j, WrotePat)}
    IN  IF starts = {} THEN t
        ELSE SubSeq(t, 1, (CHOOSE i \in starts : \A j \in starts : i <= j) - 1)

\* re.sub(r'\n\s*\n', '\n', text): a newline, whitespace, newline becomes one newline
RECURSIVE CollapseBlank(_)
CollapseBlank(t) ==
    IF t = <<>> THEN <<>>
    ELSE LET ends == {k \in 2..Len(t) :
                         /\ t[k] = NL
                         /\ \A m \in 2..k : IsSpace(t[m])}
         IN  IF t[1] = NL /\ ends # {}
             THEN <<NL>> \o
                  CollapseBlank(From(t, (CHOOSE k \in ends : \A j \in ends : k >= j) + 1))
             ELSE <<t[1]>> \o CollapseBlank(Tail(t))

\* The clean-up of check_for_response
CleanResponse(t) == Strip(CollapseBlank(StripAttribution(StripQuoted(t))))

\* re.sub('<[^<]+?>', '', html): "<", one or more characters other than "<"
\* (as few as possible), ">" is removed
RECURSIVE StripTags(_)
StripTags(t) ==
    IF t = <<>> THEN <<>>
    ELSE LET ends == {k \in 3..Len(t) :
                         /\ t[k] = ">"
                         /\ \A m \in 2..(k - 1) : t[m] # "<"}
         IN  IF t[1] = "<" /\ ends # {}
             THEN StripTags(From(t, (CHOOSE k \in ends : \A j \in ends : k <= j) + 1))
             ELSE <<t[1]>> \o StripTags(Tail(t))

----------------------------------------------------------------------------
(* The question bank and the grader's output *)

DigitChars == <<"0", "1", "2", "3", "4", "5", "6", "7", "8", "9">>
RECURSIVE Decimal(_)
Decimal(n) ==
    IF n < 10 THEN <<DigitChars[n + 1]>>
    ELSE Decimal(n \div 10) \o <<DigitChars[(n % 10) + 1]>>

\* Row idx of the CSV: question and answer
QuestionText(idx) ==
    <<"w", "h", "a", "t", " ", "i", "s", " ", "q">> \o Decimal(idx) \o <<"?">>
AnswerText(idx) == <<"a">> \o Decimal(idx)

\* format_feedback_message: "Your Score: {score}/100\n\nFeedback: {feedback}\n\n",
\* with the grader's feedback text "ok" (the lines after it are left out)
FeedbackMessage(score) ==
    <<"Y", "o", "u", "r", " ", "S", "c", "o", "r", "e", ":", " ">> \o Decimal(score)
       \o <<"/", "1", "0", "0", NL, NL>>
       \o <<"F", "e", "e", "d", "b", "a", "c", "k", ":", " ", "o", "k", NL, NL>>

\* What the correspondent (or a mail client) writes
ReplyBody == <<"d", "a", "r", "k", " ", "h", "a", "l", "o">>
EchoBody == <<"S", "c", "o", "r", "e", ":", " ", "5">>
LaterReply == <<"g", "a", "s">>
ShortQuestion == <<"w", "h", "y", "?">>   \* a question of the bank of 10 characters or less
ScoreValues == {0, 100}
\* grade_response, the except branch: the score when the grader's call fails
FallbackScore == 50
GraderScores == ScoreValues \cup {FallbackScore}

\* A cache of the text functions over the texts and From headers of the model
KnownTexts ==
    {ReplyBody, EchoBody, LaterReply, ShortQuestion} \cup {QuestionText(i) : i \in 0..(WideBank + 1)}
        \cup {FeedbackMessage(sc) : sc \in GraderScores}
CleanTable == [t \in KnownTexts |-> CleanResponse(t)]
Cleaned(t) == IF t \in KnownTexts THEN CleanTable[t] ELSE CleanResponse(t)
LowerTable == [t \in KnownTexts \cup {CleanTable[u] : u \in KnownTexts} |-> Lower(t)]
Lowered(t) == IF t \in DOMAIN LowerTable THEN LowerTable[t] ELSE Lower(t)
WordsTable == [t \in {LowerTable[u] : u \in DOMAIN LowerTable} |-> Split(t)]
WordsOf(t) == IF t \in DOMAIN WordsTable THEN WordsTable[t] ELSE Split(t)

----------------------------------------------------------------------------
(* Messages: [id, threadId, internalDate, from, payload]; a payload part is *)
(* [mimeType, data, parts], data being the decoded text (<<>>: no data)     *)

PlainPart(text) == [mimeType |-> "text/plain", data |-> text, parts |-> <<>>]

\* extract_message_text: extract_from_part applied to the payload
RECURSIVE ExtractFromPart(_)
ExtractFromPart(part) ==
    IF part.mimeType = "text/plain" /\ part.data # <<>> THEN part.data
    ELSE IF part.mimeType = "text/html" /\ part.data # <<>> THEN StripTags(part.data)
    ELSE LET found == {k \in 1..Len(part.parts) :
                          ExtractFromPart(part.parts[k]) # <<>>}
         IN  IF found = {} THEN <<>>
             ELSE ExtractFromPart(part.parts[CHOOSE k \in found : \A j \in found : k <= j])
ExtractMessageText(message) == ExtractFromPart(message.payload)

\* config.TARGET_EMAIL, and the From headers mail arrives with
TARGET_EMAIL == <<"u", "@", "x">>
FromCorrespondent == <<"A", "l", " ", "<", "U", "@", "x", ">">>
FromStranger == <<"o", "@", "y">>
\* The From header of what the service itself sends (its own account)
FromService == <<"b", "o", "t", "@", "x">>
\* The same header when the service sends from the correspondent's own
\* account (the Gmail API sends as "me")
FromOwnAccount == TARGET_EMAIL
ServiceFroms == {FromService, FromOwnAccount}
\* A message of the service as the server files it, with the From header of
\* the account it was sent from
SentFrom(message, from) == [message EXCEPT !.from = from]

\* 'score:', 'your score:', 'feedback:', 'missing points:'
FeedbackKeywords ==
    {<<"s", "c", "o", "r", "e", ":">>,
     <<"y", "o", "u", "r", " ", "s", "c", "o", "r", "e", ":">>,
     <<"f", "e", "e", "d", "b", "a", "c", "k", ":">>,
     <<"m", "i", "s", "s", "i", "n", "g", " ", "p", "o", "i", "n", "t", "s", ":">>}
PreviewLen == 200
MinResponseLen == 3
MinQuestionLen == 10
SnippetWords == 10
\* overlap > 0.8, as OverlapNum / OverlapDen
OverlapNum == 8
OverlapDen == 10

\* target_lower in from_lower
KnownFrom == {FromCorrespondent, FromStranger, FromService, FromOwnAccount}
FromTargetTable == [f \in KnownFrom |-> Contains(Lower(f), Lower(TARGET_EMAIL))]
\* A slip: the sender is not looked at.
FromAnyone(message) == TRUE

FromTarget(message) ==
    IF message.from \in KnownFrom THEN FromTargetTable[message.from]
    ELSE Contains(Lower(message.from), Lower(TARGET_EMAIL))

\* the keyword test on the first 200 characters of the extracted text
HasFeedbackKeyword(text) ==
    LET preview == Lower(Take(text, PreviewLen))
    IN  \E kw \in FeedbackKeywords : Contains(preview, kw)
KeywordTable == [t \in KnownTexts |-> HasFeedbackKeyword(t)]
LooksLikeFeedback(message) ==
    LET text == ExtractMessageText(message)
    IN  IF text \in KnownTexts THEN KeywordTable[text] ELSE HasFeedbackKeyword(text)

\* "Don't accept responses that are just the question repeated": sent is the
\* looked-up sent message, None when the lookup raised (except: pass).
MostlyQuestion(response_text, sent) ==
    /\ sent # None
    /\ LET question_text == ExtractMessageText(Val(sent))
           question_words == Range(Take(WordsOf(Lowered(question_text)), SnippetWords))
           response_words == Range(WordsOf(Lowered(response_text)))
       IN  /\ Len(question_text) > MinQuestionLen
           /\ OverlapDen * Cardinality(question_words \cap response_words)
                 > OverlapNum * Max(Cardinality(question_words), 1)

\* A slip: only the sender and the text of the message are tested.
AcceptsBySenderAndText(message, sent_message_timestamp, exclude_message_ids, sent) ==
    /\ FromTarget(message)
    /\ ~LooksLikeFeedback(message)
    /\ ~(Len(Cleaned(ExtractMessageText(message))) < MinResponseLen)
    /\ ~MostlyQuestion(Cleaned(ExtractMessageText(message)), sent)

\* A slip: neither test on the time of the message is made.
AcceptsAtAnyTime(message, sent_message_timestamp, exclude_message_ids, sent) ==
    /\ message.id \notin exclude_message_ids
    /\ FromTarget(message)
    /\ ~LooksLikeFeedback(message)
    /\ ~(Len(Cleaned(ExtractMessageText(message))) < MinResponseLen)
    /\ ~MostlyQuestion(Cleaned(ExtractMessageText(message)), sent)

\* A slip: the test for replies that come too soon to be written by a person
\* is dropped.
AcceptsAfterBuffer(message, sent_message_timestamp, exclude_message_ids, sent) ==
    LET time_diff == message.internalDate - sent_message_timestamp
    IN  /\ message.id \notin exclude_message_ids
        /\ ~(time_diff <= buffer_ms)
        /\ FromTarget(message)
        /\ ~LooksLikeFeedback(message)
        /\ ~(Len(Cleaned(ExtractMessageText(message))) < MinResponseLen)
        /\ ~MostlyQuestion(Cleaned(ExtractMessageText(message)), sent)

\* A slip: the test against the excluded ids is dropped.
AcceptsExcluded(message, sent_message_timestamp, exclude_message_ids, sent) ==
    LET time_diff == message.internalDate - sent_message_timestamp
    IN  /\ ~(time_diff <= buffer_ms)
        /\ FromTarget(message)
        /\ ~(time_diff < AutomatedMs)
        /\ ~LooksLikeFeedback(message)
        /\ ~(Len(Cleaned(ExtractMessageText(message))) < MinResponseLen)
        /\ ~MostlyQuestion(Cleaned(ExtractMessageText(message)), sent)

\* The checks of the loop body of check_for_response on one message
Accepts(message, sent_message_timestamp, exclude_message_ids, sent) ==
    LET time_diff == message.internalDate - sent_message_timestamp
    IN  /\ message.id \notin exclude_message_ids
        /\ ~(time_diff <= buffer_ms)
        /\ FromTarget(message)
        /\ ~(time_diff < AutomatedMs)
        /\ ~LooksLikeFeedback(message)
        /\ ~(Len(Cleaned(ExtractMessageText(message))) < MinResponseLen)
        /\ ~MostlyQuestion(Cleaned(ExtractMessageText(message)), sent)

\* EmailService.check_for_response on the listed thread messages: the cleaned
\* text of the first message that passes, else None.  A missing timestamp is
\* looked up from the sent message (0 when the lookup raises).
CheckForResponse(messages, sent_message_id, sent_message_timestamp, exclude_message_ids, sent) ==
    LET ts == IF sent_message_timestamp # None THEN Val(sent_message_timestamp)
              ELSE IF sent # None THEN Val(sent).internalDate ELSE 0
        excl == exclude_message_ids \cup {sent_message_id}
        ok == {k \in 1..Len(messages) : Accepts(messages[k], ts, excl, sent)}
    IN  IF ok = {} THEN None
        ELSE Some(Cleaned(ExtractMessageText(
                 messages[CHOOSE k \in ok : \A j \in ok : k <= j])))

\* get_thread_messages
ThreadMessages(box, thread_id) == SelectSeq(box, LAMBDA m : m.threadId = thread_id)

\* messages().get(id=...)
MessageById(box, id) ==
    LET at == {k \in 1..Len(box) : box[k].id = id}
    IN  IF at = {} THEN None ELSE Some(box[CHOOSE k \in at : TRUE])

----------------------------------------------------------------------------
(* The session dict *)

\* The dict _load_state returns when there is no parsable state file.
DefaultState ==
    [current_question |-> None, current_answer |-> None, thread_id |-> None,
     sent_message_id |-> None, last_question_time |-> None,
     waiting_for_response |-> FALSE, recent_questions |-> <<>>]

----------------------------------------------------------------------------
(* Persistence *)

\* The content of a file that json.load cannot parse (a write cut short)
Unparsable == <<"{", "{">>
\* os.path.exists(file) and json.load(f) succeeds
Parsable(file) == Len(file) = 1
\* The content of a file whose bytes are not text: f.read() inside json.load
\* raises UnicodeDecodeError, a ValueError that is not a JSONDecodeError
Undecodable == <<"?", "?", "?">>
Decodable(file) == file # Undecodable
\* A file as the process finds it when the last write to it was cut short
Damaged(file, hit) == IF hit /\ file # None THEN Unparsable ELSE file

\* A slip: the reload clears the thread id with the waiting fields.
LoadStateDropThread(file) ==
    IF ~Parsable(file) THEN DefaultState
    ELSE Put(Put(Put(Put(Put(Put(Val(file),
             "waiting_for_response", FALSE),
             "current_question", None),
             "current_answer", None),
             "sent_message_id", None),
             "sent_message_timestamp", None),
             "thread_id", None)

\* A slip: the reload keeps the saved dict as it is.
LoadStateKeepWaiting(file) ==
    IF ~Parsable(file) THEN DefaultState ELSE Val(file)

\* _load_state with reset_waiting=True (main.py always passes True): file is
\* the content of the state file, None when there is no file; a file that
\* json.load cannot parse gives the default dict.
LoadState(file) ==
    IF ~Parsable(file) THEN DefaultState
    ELSE Put(Put(Put(Put(Put(Val(file),
             "waiting_for_response", FALSE),
             "current_question", None),
             "current_answer", None),
             "sent_message_id", None),
             "sent_message_timestamp", None)

\* The end of _load_questions: recency ids that the reloaded bank of n
\* questions does not have clear the recency buffer and the current question.
RECURSIVE MaxOf(_)
MaxOf(s) == IF Len(s) = 1 THEN s[1] ELSE Max(s[1], MaxOf(Tail(s)))
LoadQuestions(st, n) ==
    IF GetList(st, "recent_questions") # <<>>
          /\ MaxOf(GetList(st, "recent_questions")) >= n
    THEN Put(Put(Put(Put(st,
             "recent_questions", <<>>),
             "current_question_idx", None),
             "current_question", None),
             "current_answer", None)
    ELSE st

\* _load_scores, _load_progress
LoadScores(file) == IF ~Parsable(file) THEN <<>> ELSE Val(file)
LoadProgress(file) == IF ~Parsable(file) THEN <<>> ELSE Val(file)
\* A slip: the reset flag removes nothing.
ResetFileKept(file, reset_state) == file

\* __init__: "if reset_state: ... os.remove(...)" for the state and scores files
ResetFile(file, reset_state) == IF reset_state THEN None ELSE file

----------------------------------------------------------------------------
(* Scheduler: run() and the handlers it calls *)

IntervalMs == QUESTION_INTERVAL_MINUTES * MsPerMinute
PollMs == POLL_INTERVAL_SECONDS * MsPerSecond

Waiting(st) == Get(st, "waiting_for_response") = TRUE

\* A slip: the test for a missing sent_message_id is dropped.
ShouldSendOnIntervalOnly(st, t) ==
    IF Get(st, "last_question_time") = None THEN TRUE
    ELSE t - Val(Get(st, "last_question_time")) >= IntervalMs

\* _should_send_new_question
ShouldSendNewQuestion(st, t) ==
    IF Get(st, "last_question_time") = None THEN TRUE
    ELSE IF Get(st, "sent_message_id") = None THEN TRUE
    ELSE t - Val(Get(st, "last_question_time")) >= IntervalMs

\* A slip: the send check ignores waiting_for_response.
SendDueWhileWaiting(st, t) == ShouldSendNewQuestion(st, t)

\* run(): "if not waiting_for_response and self._should_send_new_question()"
SendDue(st, t) == ~Waiting(st) /\ ShouldSendNewQuestion(st, t)

\* the timeout test of run(): twice the question interval has passed
TimedOut(st, t) ==
    IF Get(st, "last_question_time") = None THEN FALSE
    ELSE t - Val(Get(st, "last_question_time"))
            >= QUESTION_INTERVAL_MINUTES * 2 * MsPerMinute

\* A slip: the list of sent ids is never cut.
PushSentIdUnbounded(st, id) ==
    Put(st, "sent_message_ids", Append(GetList(st, "sent_message_ids"), id))

\* sent_message_ids.append(id); sent_message_ids[-10:]
PushSentId(st, id) ==
    Put(st, "sent_message_ids",
        LastN(Append(GetList(st, "sent_message_ids"), id), SENT_IDS_CAP))

\* A slip: every question opens a thread of its own.
QuestionMessageNewThread(st, idx, id, t) ==
    [id |-> id,
     threadId |-> id,
     internalDate |-> t,
     from |-> FromService,
     payload |-> PlainPart(QuestionText(idx))]

\* The message send_question hands to the server, in the thread of the session
\* (a new thread, named after the message, when the session has none).
QuestionMessage(st, idx, id, t) ==
    [id |-> id,
     threadId |-> IF Get(st, "thread_id") = None THEN id ELSE Val(Get(st, "thread_id")),
     internalDate |-> t,
     from |-> FromService,
     payload |-> PlainPart(QuestionText(idx))]

\* _send_question, "Update state": the dict after result came back
QuestionSent(st, idx, msg, t) ==
    PushSentId(
        Put(Put(Put(Put(Put(Put(Put(Put(st,
            "current_question", Some(QuestionText(idx))),
            "current_answer", Some(AnswerText(idx))),
            "current_question_idx", Some(idx)),
            "sent_message_id", Some(msg.id)),
            "sent_message_timestamp", Some(msg.internalDate)),
            "thread_id", Some(msg.threadId)),
            "last_question_time", Some(t)),
            "waiting_for_response", TRUE),
        msg.id)

\* A slip: the except branch forgets the thread as well.
SendFailedDropThread(st) ==
    Put(Put(Put(st, "waiting_for_response", FALSE), "sent_message_id", None),
        "thread_id", None)

\* A slip: the except branch leaves sent_message_id as it was.
SendFailedKeepId(st) == Put(st, "waiting_for_response", FALSE)

\* _send_question, the except branch
SendFailed(st) ==
    Put(Put(st, "waiting_for_response", FALSE), "sent_message_id", None)

\* A slip: the timeout branch clears sent_message_id only.
TimeoutResetKeepWaiting(st) == Put(st, "sent_message_id", None)

\* A slip: the timeout branch keeps sent_message_id.
TimeoutResetKeepId(st) == Put(st, "waiting_for_response", FALSE)

\* run(): the timeout branch
TimeoutReset(st) ==
    Put(Put(st, "waiting_for_response", FALSE), "sent_message_id", None)

\* A slip: the sent id is appended to the list of the dict on every poll.
ExcludeAppended(st) ==
    IF "sent_message_ids" \in DOMAIN st
    THEN Put(st, "sent_message_ids",
             Append(st["sent_message_ids"], Val(Get(st, "sent_message_id"))))
    ELSE st

\* _check_for_response: the exclusion list is the list of the dict itself, so
\* appending a missing sent id changes the dict
ExcludeAliased(st) ==
    IF /\ "sent_message_ids" \in DOMAIN st
       /\ Val(Get(st, "sent_message_id")) \notin Range(st["sent_message_ids"])
    THEN Put(st, "sent_message_ids",
             Append(st["sent_message_ids"], Val(Get(st, "sent_message_id"))))
    ELSE st

\* _check_for_response: what the poll returns; poll_ok is FALSE when listing
\* the thread raises, lookup_ok is FALSE when fetching the sent message raises
PollResponse(st, box, poll_ok, lookup_ok) ==
    IF ~Waiting(st) THEN None
    ELSE IF Get(st, "thread_id") = None \/ Get(st, "sent_message_id") = None THEN None
    ELSE IF ~poll_ok THEN None
    ELSE CheckForResponse(
             ThreadMessages(box, Val(Get(st, "thread_id"))),
             Val(Get(st, "sent_message_id")),
             Get(st, "sent_message_timestamp"),
             Range(GetList(st, "sent_message_ids")),
             IF lookup_ok THEN MessageById(box, Val(Get(st, "sent_message_id")))
             ELSE None)

\* A poll that ends the wait
PolledStopsWaiting(st) == Put(st, "waiting_for_response", FALSE)

\* The dict after the poll
Polled(st) ==
    IF Waiting(st) /\ Get(st, "thread_id") # None /\ Get(st, "sent_message_id") # None
    THEN ExcludeAliased(st) ELSE st

\* _grade_and_send_feedback: "if not question or not correct_answer: return"
GradeSkipped(st) ==
    Get(st, "current_question") = None \/ Get(st, "current_answer") = None

\* The feedback message send_feedback hands to the server
FeedbackSent(st, score, id, t) ==
    [id |-> id,
     threadId |-> Val(Get(st, "thread_id")),
     internalDate |-> t,
     from |-> FromService,
     payload |-> PlainPart(FeedbackMessage(score))]

\* _record_progress: the entry appended
ProgressEntry(st, user_response, score, t) ==
    [timestamp |-> t,
     question_idx |-> Get(st, "current_question_idx"),
     question |-> Val(Get(st, "current_question")),
     user_response |-> user_response,
     feedback |-> FeedbackMessage(score),
     score |-> score]

\* A slip: the round ends with the session still waiting.
GradedKeepWaiting(st, feedback_id) ==
    Put(Put(Put(Put(Put(PushSentId(st, feedback_id),
        "current_question", None),
        "current_answer", None),
        "current_question_idx", None),
        "sent_message_id", None),
        "sent_message_timestamp", None)

\* A slip: the round ends without clearing the question in flight.
GradedKeepQuestion(st, feedback_id) ==
    Put(Put(Put(PushSentId(st, feedback_id),
        "waiting_for_response", FALSE),
        "current_question_idx", None),
        "sent_message_timestamp", None)

\* _grade_and_send_feedback, "Update state" after the feedback went out
Graded(st, feedback_id) ==
    Put(Put(Put(Put(Put(Put(PushSentId(st, feedback_id),
        "waiting_for_response", FALSE),
        "current_question", None),
        "current_answer", None),
        "current_question_idx", None),
        "sent_message_id", None),
        "sent_message_timestamp", None)

\* _grade_and_send_feedback, the except branch
GradeFailed(st) == Put(st, "waiting_for_response", FALSE)

\* A slip: the score goes under the first id of the recency buffer.
ScoreRecordedUnderOldest(st, sc, score) ==
    IF GetList(st, "recent_questions") = <<>> THEN sc
    ELSE RecordScore(sc, GetList(st, "recent_questions")[1], score)

\* if question_idx is not None: self._record_score(question_idx, score)
ScoreRecorded(st, sc, score) ==
    IF Get(st, "current_question_idx") = None THEN sc
    ELSE RecordScore(sc, Val(Get(st, "current_question_idx")), score)

----------------------------------------------------------------------------
(* The selector on its own: banks and ledgers drawn from bounded sets,      *)
(* then a sequence of selector calls from an empty recency buffer.          *)

ScoreLists == {<<>>, <<0>>, <<80, 60>>, <<100>>}

\* The ledgers _record_score can have built: a key only for an answered id.
Ledgers(n) ==
    IF n <= MaxBank
    THEN {[i \in {j \in BankIds(n) : f[j] # <<>>} |-> f[i]] :
              f \in [BankIds(n) -> ScoreLists]}
    ELSE {<<>>, [i \in BankIds(n) |-> <<50>>]}

Idle(n, sc) ==
    /\ num_questions = n
    /\ state = DefaultState
    /\ scores = sc
    /\ progress = <<>>
    /\ state_file = None
    /\ scores_file = None
    /\ progress_file = None
    /\ mailbox = <<>>
    /\ next_id = 1
    /\ now = 0
    /\ pc = "top"
    /\ event = "init"
    /\ selections = <<>>
    /\ since_reset = <<>>
    /\ last_delivery = None
    /\ runs = 1
    /\ iterations = 0
    /\ response = None
    /\ persisted_log = <<>>
    /\ model_reply = None
    /\ grade_result = None

SelInit ==
    \E n \in (0..MaxBank) \cup {WideBank} : \E sc \in Ledgers(n) : Idle(n, sc)

\* The history of a selector call that returned idx.
Chosen(idx) ==
    /\ selections' = Append(selections, idx)
    /\ since_reset' = IF ResetNeeded(state, num_questions)
                      THEN <<idx>> ELSE Append(since_reset, idx)

\* One call of _select_random_question.
SelectQuestion ==
    /\ Len(selections) < num_questions + MaxExtra
    /\ \E idx \in Draws(state, scores, num_questions) :
          /\ state' = Selected(state, num_questions, idx)
          /\ Chosen(idx)
    /\ event' = "select"
    /\ UNCHANGED <<model_reply, grade_result,
                   num_questions, scores, progress, state_file, scores_file,
                   progress_file, mailbox, next_id, now, pc, last_delivery, runs, iterations,
                   response, persisted_log>>

\* One call of _select_random_question on a bank without questions: the
\* exception leaves _send_question and run()
SelectOnEmptyBank ==
    /\ pc = "top"
    /\ SelectorRaises(state, scores, num_questions)
    /\ state' = RaisedSelection(state, num_questions)
    /\ pc' = "stopped"
    /\ event' = "select_error"
    /\ UNCHANGED <<model_reply, grade_result, num_questions, scores, progress,
                   state_file, scores_file, progress_file, mailbox, next_id, now,
                   selections, since_reset, last_delivery, runs, iterations,
                   response, persisted_log>>

SelNext == SelectQuestion \/ SelectOnEmptyBank

SpecSel == SelInit /\ [][SelNext]_vars

----------------------------------------------------------------------------
(* The service loop with its environment: the mail server, the              *)
(* correspondent, the grader and the clock.                                 *)

\* What the environment is explored over
\* an iteration lasts this many poll intervals: one, or half the timeout
Delays == {1, 20}
\* who writes what, how long into a sleep: a reply of the correspondent, a
\* stranger's mail, and a reply of the correspondent that comes within the
\* first ten seconds
Inbound ==
    {[from |-> FromCorrespondent, body |-> ReplyBody, offset |-> AutomatedMs],
     [from |-> FromStranger, body |-> ReplyBody, offset |-> AutomatedMs],
     [from |-> FromCorrespondent, body |-> ReplyBody, offset |-> buffer_ms + 1]}

Init == \E n \in 1..MaxLoopBank : Idle(n, <<>>)

\* run(): the send check finds a question due, and the mail server accepts it
SendQuestionOk(e) ==
    /\ pc = "top"
    /\ SendDue(state, now)
    /\ next_id <= e.max_messages
    /\ \E idx \in DrawsAmong(state, scores, num_questions, e.draw) :
          LET msg == SentFrom(QuestionMessage(state, idx, next_id, now), e.service_from)
          IN  /\ state' = QuestionSent(Selected(state, num_questions, idx), idx, msg, now)
              /\ mailbox' = Append(mailbox, msg)
              /\ Chosen(idx)
    /\ state_file' = Some(state')
    /\ next_id' = next_id + 1
    /\ last_delivery' = Some(now)
    /\ pc' = "check"
    /\ event' = "send_ok"
    /\ UNCHANGED <<model_reply, grade_result,
                   num_questions, scores, progress, scores_file, progress_file,
                   now, runs, iterations,
                   response, persisted_log>>

\* run(): the send check finds a question due, and sending raises
SendQuestionFail(e) ==
    /\ pc = "top"
    /\ SendDue(state, now)
    /\ \E idx \in DrawsAmong(state, scores, num_questions, e.draw) :
          /\ state' = SendFailed(Selected(state, num_questions, idx))
          /\ Chosen(idx)
    /\ state_file' = Some(state')
    /\ pc' = "check"
    /\ event' = "send_fail"
    /\ UNCHANGED <<model_reply, grade_result,
                   num_questions, scores, progress, scores_file, progress_file,
                   mailbox, next_id, now, last_delivery, runs, iterations,
                   response, persisted_log>>

\* run(): the send check finds nothing to send
NoSend ==
    /\ pc = "top"
    /\ ~SendDue(state, now)
    /\ pc' = "check"
    /\ event' = "no_send"
    /\ UNCHANGED <<model_reply, grade_result,
                   num_questions, state, scores, progress, state_file, scores_file,
                   progress_file, mailbox, next_id, now, selections, since_reset,
                   last_delivery, runs, iterations,
                   response, persisted_log>>

\* run(): the response check when no question is outstanding
NotWaiting ==
    /\ pc = "check"
    /\ ~Waiting(state)
    /\ pc' = "sleep"
    /\ event' = "not_waiting"
    /\ UNCHANGED <<model_reply, grade_result,
                   num_questions, state, scores, progress, state_file, scores_file,
                   progress_file, mailbox, next_id, now, selections, since_reset,
                   last_delivery, runs, iterations,
                   response, persisted_log>>

\* run(): the timeout branch, then "continue"
Timeout ==
    /\ pc = "check"
    /\ Waiting(state) /\ TimedOut(state, now)
    /\ state' = TimeoutReset(state)
    /\ state_file' = Some(state')
    /\ pc' = "top"
    /\ event' = "timeout"
    /\ UNCHANGED <<model_reply, grade_result,
                   num_questions, scores, progress, scores_file, progress_file,
                   mailbox, next_id, now, selections, since_reset, last_delivery, runs, iterations,
                   response, persisted_log>>

\* run(): the poll returns nothing, or the grading returns at once for want of
\* a question
PollNoResponse ==
    /\ pc = "check"
    /\ Waiting(state) /\ ~TimedOut(state, now)
    /\ \E lookup_ok \in BOOLEAN :
          LET got == PollResponse(state, mailbox, TRUE, lookup_ok)
          IN  /\ got = None \/ GradeSkipped(Polled(state))
              /\ response' = got
    /\ state' = Polled(state)
    /\ pc' = "sleep"
    /\ event' = "no_response"
    /\ UNCHANGED <<model_reply, grade_result,
                   num_questions, scores, progress, state_file, scores_file,
                   progress_file, mailbox, next_id, now, selections, since_reset,
                   last_delivery, runs, iterations, persisted_log>>

\* run(): listing the thread raises, which _check_for_response turns into None
PollFailed ==
    /\ pc = "check"
    /\ Waiting(state) /\ ~TimedOut(state, now)
    /\ response' = PollResponse(state, mailbox, FALSE, TRUE)
    /\ response' = None
    /\ state' = Polled(state)
    /\ pc' = "sleep"
    /\ event' = "poll_failed"
    /\ UNCHANGED <<model_reply, grade_result,
                   num_questions, scores, progress, state_file, scores_file,
                   progress_file, mailbox, next_id, now, selections, since_reset,
                   last_delivery, runs, iterations, persisted_log>>

\* run(): the poll returns a response, it is graded and the feedback goes out
GradeAndSendFeedback(e) ==
    /\ pc = "check"
    /\ Waiting(state) /\ ~TimedOut(state, now)
    /\ next_id <= e.max_messages
    /\ \E lookup_ok \in BOOLEAN, score \in e.scores :
          LET got == PollResponse(state, mailbox, TRUE, lookup_ok)
              st == Polled(state)
          IN  /\ got # None
              /\ ~GradeSkipped(st)
              /\ response' = got
              /\ scores' = ScoreRecorded(st, scores, score)
              /\ scores_file' = IF Get(st, "current_question_idx") = None
                                THEN scores_file ELSE Some(scores')
              /\ mailbox' = Append(mailbox,
                    SentFrom(FeedbackSent(st, score, next_id, now), e.service_from))
              /\ progress' = Append(progress, ProgressEntry(st, Val(got), score, now))
              /\ state' = Graded(st, next_id)
    /\ progress_file' = Some(progress')
    /\ persisted_log' = progress'
    /\ state_file' = Some(state')
    /\ next_id' = next_id + 1
    /\ pc' = "sleep"
    /\ event' = "graded"
    /\ UNCHANGED <<model_reply, grade_result,
                   num_questions, now, selections, since_reset, last_delivery, runs, iterations>>

\* run(): the poll returns a response, the score is recorded and sending the
\* feedback raises
GradeFeedbackFail(e) ==
    /\ pc = "check"
    /\ Waiting(state) /\ ~TimedOut(state, now)
    /\ \E lookup_ok \in BOOLEAN, score \in e.scores :
          LET got == PollResponse(state, mailbox, TRUE, lookup_ok)
              st == Polled(state)
          IN  /\ got # None
              /\ ~GradeSkipped(st)
              /\ response' = got
              /\ scores' = ScoreRecorded(st, scores, score)
              /\ scores_file' = IF Get(st, "current_question_idx") = None
                                THEN scores_file ELSE Some(scores')
              /\ state' = GradeFailed(st)
    /\ state_file' = Some(state')
    /\ pc' = "sleep"
    /\ event' = "grade_failed"
    /\ UNCHANGED <<model_reply, grade_result,
                   num_questions, progress, progress_file, mailbox, next_id, now,
                   selections, since_reset, last_delivery, runs, iterations,
                   persisted_log>>

\* run(): time.sleep(POLL_INTERVAL_SECONDS); with the calls of the iteration
\* the clock moves on by a whole number of poll intervals
Sleep(e) ==
    /\ pc = "sleep"
    /\ iterations < e.max_iterations
    /\ iterations' = iterations + 1
    /\ \E d \in e.delays : now' = now + d * PollMs
    /\ pc' = "top"
    /\ event' = "sleep"
    /\ UNCHANGED <<model_reply, grade_result,
                   num_questions, state, scores, progress, state_file, scores_file,
                   progress_file, mailbox, next_id, selections, since_reset,
                   last_delivery, runs,
                   response, persisted_log>>

\* Mail arrives in the thread of the session while the loop sleeps
Deliver(e) ==
    /\ pc = "sleep"
    /\ Get(state, "thread_id") # None
    /\ next_id <= e.max_messages
    /\ Len(SelectSeq(mailbox, LAMBDA m : m.from \notin ServiceFroms)) < e.max_inbound
    /\ \E mail \in e.inbound :
          mailbox' = Append(mailbox,
              [id |-> next_id, threadId |-> Val(Get(state, "thread_id")),
               internalDate |-> now + mail.offset, from |-> mail.from,
               payload |-> PlainPart(mail.body)])
    /\ next_id' = next_id + 1
    /\ event' = "deliver"
    /\ UNCHANGED <<model_reply, grade_result,
                   num_questions, state, scores, progress, state_file, scores_file,
                   progress_file, now, pc, selections, since_reset, last_delivery, runs, iterations,
                   response, persisted_log>>

\* The loop sleeps while no question is outstanding
IdleSleep(e) == ~Waiting(state) /\ Sleep(e)

\* The loop sleeps while a question is outstanding, and the correspondent's
\* answer arrives during that sleep
AnsweredSleep(e) ==
    /\ pc = "sleep"
    /\ Waiting(state)
    /\ iterations < e.max_iterations
    /\ next_id <= e.max_messages
    /\ iterations' = iterations + 1
    /\ \E mail \in e.inbound, d \in e.delays :
          /\ mail.offset < d * PollMs
          /\ mailbox' = Append(mailbox,
                [id |-> next_id, threadId |-> Val(Get(state, "thread_id")),
                 internalDate |-> now + mail.offset, from |-> mail.from,
                 payload |-> PlainPart(mail.body)])
          /\ now' = now + d * PollMs
    /\ next_id' = next_id + 1
    /\ pc' = "top"
    /\ event' = "sleep"
    /\ UNCHANGED <<model_reply, grade_result,
                   num_questions, state, scores, progress, state_file, scores_file,
                   progress_file, selections, since_reset, last_delivery, runs,
                   response, persisted_log>>

\* KeyboardInterrupt: the state is saved and run() returns
Interrupt ==
    /\ pc = "sleep"
    /\ state_file' = Some(state)
    /\ pc' = "stopped"
    /\ event' = "interrupt"
    /\ UNCHANGED <<model_reply, grade_result,
                   num_questions, state, scores, progress, scores_file,
                   progress_file, mailbox, next_id, now, selections, since_reset,
                   last_delivery, runs, iterations,
                   response, persisted_log>>

\* The ways the process is started again
Startups ==
    {"restart", "restart_reset", "restart_bad_state", "restart_bad_scores",
     "restart_bad_progress"}

\* The process ends (stopped or killed) and is started again, against a bank
\* of n questions: QuizService.__init__, with or without --reset, and with or
\* without a file that the last write left unparsable
Restart(e) ==
    /\ runs < e.max_runs
    /\ iterations < e.max_iterations
    /\ runs' = runs + 1
    /\ iterations' = iterations + 1
    /\ \E n \in e.banks, kind \in e.startups :
          /\ kind = "restart_bad_state" => state_file # None
          /\ kind = "restart_bad_scores" => scores_file # None
          /\ kind = "restart_bad_progress" => progress_file # None
          /\ kind = "restart_undecodable_scores" => scores_file # None
          /\ state_file' = ResetFile(Damaged(state_file, kind = "restart_bad_state"),
                                     kind = "restart_reset")
          /\ scores_file' = IF kind = "restart_undecodable_scores" THEN Undecodable
                            ELSE ResetFile(Damaged(scores_file, kind = "restart_bad_scores"),
                                           kind = "restart_reset")
          /\ progress_file' = Damaged(progress_file, kind = "restart_bad_progress")
          /\ Decodable(state_file') /\ Decodable(progress_file')
          /\ num_questions' = n
          /\ event' = kind
    /\ state' = LoadQuestions(LoadState(state_file'), num_questions')
    /\ scores' = LoadScores(scores_file')
    /\ progress' = LoadProgress(progress_file')
    /\ last_delivery' = None
    /\ response' = None
    /\ pc' = "top"
    /\ since_reset' = IF GetList(state', "recent_questions") = <<>>
                      THEN <<>> ELSE since_reset
    /\ UNCHANGED <<model_reply, grade_result,
                   mailbox, next_id, now, selections, persisted_log>>

\* What the loop is explored over
Env ==
    [banks |-> 1..MaxLoopBank, draw |-> MaxLoopBank, delays |-> Delays,
     startups |-> {"restart"},
     inbound |-> Inbound, scores |-> {0, FallbackScore},
     max_messages |-> MaxMessages, max_inbound |-> MaxInbound,
     max_iterations |-> MaxIterations, max_runs |-> MaxRuns,
     service_from |-> FromService]

Next ==
    \/ SendQuestionOk(Env)
    \/ SendQuestionFail(Env)
    \/ NoSend
    \/ NotWaiting
    \/ Timeout
    \/ PollNoResponse
    \/ PollFailed
    \/ GradeAndSendFeedback(Env)
    \/ GradeFeedbackFail(Env)
    \/ Sleep(Env)
    \/ Deliver(Env)
    \/ Interrupt
    \/ Restart(Env)

Spec == Init /\ [][Next]_vars

\* A long run against the wide bank, in which the correspondent answers every
\* question within one poll interval and the process may be started again:
\* the buffers fill up and evict.
WideEnv ==
    [banks |-> {WideBank}, draw |-> 1, delays |-> {1},
     startups |-> {"restart"},
     inbound |-> {[from |-> FromCorrespondent, body |-> ReplyBody,
                   offset |-> AutomatedMs]},
     scores |-> {PerfectScore},
     max_messages |-> WideMessages, max_inbound |-> 0,
     max_iterations |-> WideIterations, max_runs |-> MaxRuns,
     service_from |-> FromOwnAccount]

WideInit == Idle(WideBank, <<>>)

WideNext ==
    \/ SendQuestionOk(WideEnv)
    \/ NoSend
    \/ PollNoResponse
    \/ GradeAndSendFeedback(WideEnv)
    \/ IdleSleep(WideEnv)
    \/ AnsweredSleep(WideEnv)
    \/ Restart(WideEnv)

SpecWide == WideInit /\ [][WideNext]_vars

\* The loop that keeps iterating: the bound on the iterations stops it only
\* while no question is outstanding, so that a wait is always explored to its end.
LiveSleep(e) ==
    /\ pc = "sleep"
    /\ iterations < e.max_iterations \/ Waiting(state)
    /\ iterations' = Min(iterations + 1, e.max_iterations)
    /\ \E d \in e.delays : now' = now + d * PollMs
    /\ pc' = "top"
    /\ event' = "sleep"
    /\ UNCHANGED <<model_reply, grade_result,
                   num_questions, state, scores, progress, state_file, scores_file,
                   progress_file, mailbox, next_id, selections, since_reset,
                   last_delivery, runs, response, persisted_log>>

LiveEnv ==
    [banks |-> 1..MaxLoopBank, draw |-> 1, delays |-> {20},
     startups |-> {"restart"},
     inbound |-> {[from |-> FromCorrespondent, body |-> ReplyBody,
                   offset |-> AutomatedMs],
                  [from |-> FromStranger, body |-> ReplyBody,
                   offset |-> AutomatedMs]},
     scores |-> {0},
     max_messages |-> MaxMessages, max_inbound |-> MaxInbound,
     max_iterations |-> MaxIterations, max_runs |-> 1,
     service_from |-> FromService]

\* The steps of run() itself, as opposed to those of its environment
LoopStep ==
    \/ SendQuestionOk(LiveEnv)
    \/ SendQuestionFail(LiveEnv)
    \/ NoSend
    \/ NotWaiting
    \/ Timeout
    \/ PollNoResponse
    \/ PollFailed
    \/ GradeAndSendFeedback(LiveEnv)
    \/ GradeFeedbackFail(LiveEnv)
    \/ LiveSleep(LiveEnv)

LiveNext == LoopStep \/ Deliver(LiveEnv)

\* The loop keeps iterating and time advances: run() is never stopped, and
\* every call it makes returns or raises.
SpecLive == Init /\ [][LiveNext]_vars /\ WF_vars(LoopStep)

\* The loop with every way of starting the process again (the reset flag,
\* unparsable files), an iteration lasting half the timeout and the
\* correspondent answering within a sleep or not at all.
FilesEnv ==
    [banks |-> 1..MaxLoopBank, draw |-> 1, delays |-> {20},
     startups |-> Startups,
     inbound |-> {[from |-> FromCorrespondent, body |-> ReplyBody,
                   offset |-> AutomatedMs]},
     scores |-> {0},
     max_messages |-> FileMessages, max_inbound |-> 0,
     max_iterations |-> FileIterations, max_runs |-> MaxRuns,
     service_from |-> FromOwnAccount]

FilesNext ==
    \/ SendQuestionOk(FilesEnv)
    \/ SendQuestionFail(FilesEnv)
    \/ NoSend
    \/ NotWaiting
    \/ Timeout
    \/ PollNoResponse
    \/ GradeAndSendFeedback(FilesEnv)
    \/ GradeFeedbackFail(FilesEnv)
    \/ Sleep(FilesEnv)
    \/ AnsweredSleep(FilesEnv)
    \/ Interrupt
    \/ Restart(FilesEnv)

SpecFiles == Init /\ [][FilesNext]_vars

----------------------------------------------------------------------------
(* Starts that end before the loop: a missing setting or file, or a state   *)
(* or progress file whose bytes are not text                                *)

\* Why a start ends before the loop.  "no_credentials" is the missing
\* credentials file found by EmailService() (no valid token), and
\* "no_credentials_file" the one found by validate_config (valid token).
MissingAtStartup ==
    {"no_api_key", "no_credentials", "no_target_email", "no_credentials_file",
     "no_questions_file"}
StartupFailures == MissingAtStartup \cup {"undecodable_state", "undecodable_progress"}

\* EmailService() and GradingService() are constructed before __init__ looks
\* at the reset flag; the files are loaded, _load_questions runs and run()
\* validates the configuration after it.
BeforeReset(kind) == kind \in {"no_api_key", "no_credentials"}

\* A start of the process that ends before the first iteration of the loop:
\* __init__ raises, or run() returns on a configuration error.
StartupFails(e) ==
    /\ runs < e.max_runs
    /\ iterations < e.max_iterations
    /\ runs' = runs + 1
    /\ iterations' = iterations + 1
    /\ \E kind \in e.failures, reset_state \in BOOLEAN :
          LET removed == reset_state /\ ~BeforeReset(kind)
          IN  /\ kind = "undecodable_state" => (state_file # None /\ ~removed)
              /\ kind = "undecodable_progress" =>
                    (progress_file # None /\ (Decodable(state_file) \/ removed))
              /\ (kind \in MissingAtStartup /\ ~BeforeReset(kind))
                    => /\ Decodable(state_file) \/ removed
                       /\ Decodable(progress_file)
              /\ state_file' = IF kind = "undecodable_state" THEN Undecodable
                               ELSE ResetFile(state_file, removed)
              /\ scores_file' = ResetFile(scores_file, removed)
              /\ progress_file' = IF kind = "undecodable_progress" THEN Undecodable
                                  ELSE progress_file
              /\ event' = kind
    /\ state' = DefaultState
    /\ scores' = <<>>
    /\ progress' = <<>>
    /\ last_delivery' = None
    /\ response' = None
    /\ pc' = "stopped"
    /\ UNCHANGED <<model_reply, grade_result,
                   num_questions, mailbox, next_id, now, selections, since_reset,
                   persisted_log>>

StartupEnv ==
    [banks |-> 1..MaxLoopBank, draw |-> 1, delays |-> {20},
     startups |-> Startups \cup {"restart_undecodable_scores"},
     failures |-> StartupFailures,
     inbound |-> {[from |-> FromCorrespondent, body |-> ReplyBody,
                   offset |-> AutomatedMs]},
     scores |-> {0},
     max_messages |-> FileMessages, max_inbound |-> 0,
     max_iterations |-> FileIterations, max_runs |-> MaxRuns,
     service_from |-> FromOwnAccount]

StartupNext ==
    \/ SendQuestionOk(StartupEnv)
    \/ SendQuestionFail(StartupEnv)
    \/ NoSend
    \/ NotWaiting
    \/ Timeout
    \/ PollNoResponse
    \/ GradeAndSendFeedback(StartupEnv)
    \/ GradeFeedbackFail(StartupEnv)
    \/ Sleep(StartupEnv)
    \/ AnsweredSleep(StartupEnv)
    \/ Interrupt
    \/ Restart(StartupEnv)
    \/ StartupFails(StartupEnv)

SpecStartup == Init /\ [][StartupNext]_vars

----------------------------------------------------------------------------
(* Claims about the selector (checked under SpecSel)                        *)

RecentQuestions == GetList(state, "recent_questions")
SelectorReturned == selections' # selections
Returned == selections'[Len(selections')]

\* C3 as stated: after each selector call the recency buffer equals the (at
\* most 10) most recent selections, in selection order, for every bank size.
C3_BufferIsLastTenSelections ==
    RecentQuestions = LastN(selections, RECENT_CAP)

\* C3, amended: after each selector call the recency buffer equals the (at
\* most 10) most recent selections made since the buffer was last emptied, in
\* selection order, the oldest evicted first; in a bank of more than 10
\* questions the buffer is never emptied and equals the last 10 selections.
C3_BufferIsLastTenSinceReset ==
    /\ RecentQuestions = LastN(since_reset, RECENT_CAP)
    /\ Len(RecentQuestions) <= RECENT_CAP
    /\ num_questions > RECENT_CAP =>
          RecentQuestions = LastN(selections, RECENT_CAP)

\* C3 witness: more than 10 selections without a reset, so the oldest were evicted.
C3_Evicted ==
    /\ Len(since_reset) > RECENT_CAP
    /\ Len(RecentQuestions) = RECENT_CAP
    /\ RecentQuestions[1] # since_reset[1]

\* C4: whenever some id of the bank has no score entries, the selector returns
\* an id that has no score entries, whatever the recency buffer contains.
C4_UnansweredFirst ==
    [][(SelectorReturned /\ \E i \in BankIds(num_questions) : Unanswered(scores, i))
          => Unanswered(scores, Returned)]_vars

\* C5: the selector returns an id of the bank; it returns an id that is in the
\* recency buffer only when the buffer holds every id of the bank; from an
\* empty buffer with a bank of N <= 10 questions the first N selections are
\* pairwise distinct.
C5_NoRepeatBeforeFullPass ==
    /\ [][SelectorReturned =>
            /\ Returned \in BankIds(num_questions)
            /\ Returned \in Range(RecentQuestions) =>
                  /\ BankIds(num_questions) \subseteq Range(RecentQuestions)
                  /\ RecentQuestions' = <<Returned>>]_vars
    /\ [](num_questions <= RECENT_CAP =>
            \A i, j \in 1..Min(Len(selections), num_questions) :
                i # j => selections[i] # selections[j])

\* C5 witness: a full pass over a bank of several questions, then a repeat.
C5_RepeatAfterFullPass ==
    /\ num_questions >= 2
    /\ Len(selections) > num_questions
    /\ selections[Len(selections)] \in Range(SubSeq(selections, 1, num_questions))

----------------------------------------------------------------------------
(* Claims about the session dict and the loop (checked under Spec, the      *)
(* buffer bounds under SpecWide)                                            *)

CurrentQuestion == Get(state, "current_question")
ThreadId == Get(state, "thread_id")
SentMessageId == Get(state, "sent_message_id")
LastQuestionTime == Get(state, "last_question_time")
SentMessageIds == GetList(state, "sent_message_ids")
ServiceMessages == SelectSeq(mailbox, LAMBDA m : m.from \in ServiceFroms)
InboundMessages == SelectSeq(mailbox, LAMBDA m : m.from \notin ServiceFroms)

\* A step of the loop that passes the send check, and one that attempts a send
SendCheckStep == pc = "top" /\ pc' = "check"
SendAttempted == event' \in {"send_ok", "send_fail"}
\* A step of the loop that runs the response check of one iteration
ResponseCheckStep == pc = "check" /\ pc' \in {"top", "sleep"} /\ runs' = runs

\* C1: whenever waiting_for_response is true, current_question, thread_id and
\* sent_message_id are all non-null.
C1_WaitingHasQuestion ==
    Waiting(state) =>
        /\ CurrentQuestion # None
        /\ ThreadId # None
        /\ SentMessageId # None

\* C1 witness: a question is outstanding in a process that was started again
\* from the files of an earlier run.
C1_WaitingAfterRestart ==
    /\ Waiting(state)
    /\ runs > 1
    /\ Len(ServiceMessages) >= 2

\* C2: recent_questions and sent_message_ids each hold at most 10 entries.
C2_BuffersBounded ==
    /\ Len(RecentQuestions) <= RECENT_CAP
    /\ Len(SentMessageIds) <= SENT_IDS_CAP

\* C2 witness: more than 10 questions were selected and more than 10 messages
\* were sent, and both buffers sit at their capacity.
C2_BuffersFull ==
    /\ Len(selections) > RECENT_CAP
    /\ Len(ServiceMessages) > SENT_IDS_CAP
    /\ Len(RecentQuestions) = RECENT_CAP
    /\ Len(SentMessageIds) = SENT_IDS_CAP

\* The send condition as C6 states it
C6_Eligible ==
    /\ ~Waiting(state)
    /\ \/ LastQuestionTime = None
       \/ SentMessageId = None
       \/ now - Val(LastQuestionTime) >= IntervalMs

\* C6: in a loop iteration a send is attempted if and only if
\* waiting_for_response is false and (last_question_time is null, or
\* sent_message_id is null, or at least the question interval has elapsed
\* since last_question_time).
C6_SendIffEligible ==
    [][SendCheckStep => (SendAttempted <=> C6_Eligible)]_vars

\* C6 witness: a question went out on the third ground alone: the previous
\* question was answered, sending its feedback failed (so sent_message_id
\* stayed), and the interval has elapsed since.
C6_SentOnInterval ==
    /\ event = "send_ok"
    /\ runs = 1
    /\ Len(selections) = 2
    /\ scores # <<>>
    /\ Len(ServiceMessages) = 2
    /\ ServiceMessages[2].internalDate - ServiceMessages[1].internalDate >= IntervalMs

\* C7: within one run, no further question is delivered until at least the
\* question interval has elapsed since the previous delivery, also when the
\* previous question was answered and graded early.
C7_IntervalBetweenDeliveries ==
    [][(event' = "send_ok" /\ pc = "top" /\ last_delivery # None)
          => now - Val(last_delivery) >= IntervalMs]_vars

\* C8: no send is attempted while waiting_for_response is true.
C8_NoSendWhileWaiting ==
    [][(SendCheckStep /\ SendAttempted) => ~Waiting(state)]_vars

\* C8 witness: the loop passed the send check with a question outstanding for
\* longer than the question interval, and sent nothing.
C8_HeldBackWhileWaiting ==
    /\ event = "no_send"
    /\ Waiting(state)
    /\ LastQuestionTime # None
    /\ now - Val(LastQuestionTime) >= IntervalMs
    /\ Len(selections) = Len(ServiceMessages)

\* C9: when the response check runs with waiting_for_response true and at
\* least twice the question interval elapsed since last_question_time, the
\* iteration ends with waiting_for_response false and sent_message_id null,
\* that state persisted, and the next iteration is send-eligible.
C9_TimeoutResets ==
    [][(/\ ResponseCheckStep
        /\ Waiting(state)
        /\ LastQuestionTime # None
        /\ now - Val(LastQuestionTime) >= 2 * IntervalMs)
          => /\ ~Waiting(state')
             /\ Get(state', "sent_message_id") = None
             /\ state_file' = Some(state')
             /\ C6_Eligible']_vars

\* C9 witness: the timeout branch ran.
C9_TimedOut ==
    /\ event = "timeout"
    /\ ~Waiting(state)
    /\ SentMessageId = None
    /\ now - Val(LastQuestionTime) >= 2 * IntervalMs

\* C10: the timeout is taken only when the thread holds no message that the
\* classifier accepts; a message acceptable at the timeout iteration is graded.
C10_TimeoutOnlyWithoutResponse ==
    [][(ResponseCheckStep /\ event' = "timeout")
          => \A lookup_ok \in BOOLEAN :
                PollResponse(state, mailbox, TRUE, lookup_ok) = None]_vars

----------------------------------------------------------------------------
(* Claims about waits, failures and graded rounds                           *)

\* C11: provided the loop keeps iterating and time advances, every state with
\* waiting_for_response true is eventually followed by one where it is false,
\* whether or not a reply arrives and whether or not polls or grading fail.
C11_WaitingEnds == Waiting(state) ~> ~Waiting(state)

\* C11 witness: a wait that no reply ever ended was given up by the timeout.
C11_WaitEndedWithoutReply ==
    /\ event = "timeout"
    /\ ~Waiting(state)
    /\ InboundMessages = <<>>
    /\ response = None

\* C12: when the send call raises, the session is left with
\* waiting_for_response false and sent_message_id null, that state is
\* persisted, the loop goes on, and a send check that finds the session so
\* attempts a send again.
C12_SendFailureRetries ==
    /\ [](event = "send_fail" =>
            /\ ~Waiting(state)
            /\ SentMessageId = None
            /\ state_file = Some(state)
            /\ pc = "check")
    /\ [][(SendCheckStep /\ ~Waiting(state) /\ SentMessageId = None)
            => SendAttempted]_vars

\* C12 witness: a send failed, and the attempt of the next iteration failed too.
C12_FailedTwice ==
    /\ event = "send_fail"
    /\ ServiceMessages = <<>>
    /\ Len(selections) = 2
    /\ iterations = 1
    /\ runs = 1

CurrentAnswer == Get(state, "current_answer")
CurrentQuestionIdx == Get(state, "current_question_idx")

\* The list the ledger holds for a question id, empty when it holds none.
LedgerList(sc, idx) == IF idx \in DOMAIN sc THEN sc[idx] ELSE <<>>

\* A response check that got a response and delivered the feedback for it.
FeedbackDelivered ==
    /\ ResponseCheckStep
    /\ response' # None
    /\ Len(mailbox') = Len(mailbox) + 1

\* C13: a round whose response is graded and whose feedback goes out ends
\* with exactly one score appended at the end of the ledger list of the
\* question in flight, the feedback's id in sent_message_ids, exactly one
\* progress entry with that question id and score appended, and the session
\* not waiting with current_question, current_answer and sent_message_id
\* null.
C13_GradedRound ==
    [][FeedbackDelivered =>
         /\ CurrentQuestionIdx # None
         /\ LET idx == Val(CurrentQuestionIdx)
                score == progress'[Len(progress')].score
            IN  /\ DOMAIN scores' = DOMAIN scores \cup {idx}
                /\ scores'[idx] = Append(LedgerList(scores, idx), score)
                /\ \A j \in DOMAIN scores \ {idx} : scores'[j] = scores[j]
                /\ progress' = Append(progress, progress'[Len(progress')])
                /\ progress'[Len(progress')].question_idx = Some(idx)
                /\ \E i \in 1..Len(SentMessageIds') :
                      SentMessageIds'[i] = mailbox'[Len(mailbox')].id
                /\ ~Waiting(state')
                /\ CurrentQuestion' = None
                /\ CurrentAnswer' = None
                /\ SentMessageId' = None]_vars

\* C13 witness: a graded round added a second score to the list of its
\* question.
C13_SecondScore ==
    /\ event = "graded"
    /\ Len(progress) = 2
    /\ \E idx \in DOMAIN scores : Len(scores[idx]) = 2

\* A response check that got a response and ended in the except branch of
\* _grade_and_send_feedback.
FailureBranchTaken ==
    /\ ResponseCheckStep
    /\ response' # None
    /\ event' = "grade_failed"

\* C14: when the handling of an accepted response ends in the failure
\* branch, no score has been recorded in the ledger for that round and the
\* session is not waiting.
C14_FailureRecordsNoScore ==
    [][FailureBranchTaken => (scores' = scores /\ ~Waiting(state'))]_vars

\* The number of scores the ledger holds.
RECURSIVE LedgerSize(_)
LedgerSize(sc) ==
    IF DOMAIN sc = {} THEN 0
    ELSE LET idx == CHOOSE i \in DOMAIN sc : TRUE
         IN  Len(sc[idx]) + LedgerSize([j \in DOMAIN sc \ {idx} |-> sc[j]])

\* C15: in every round that appends a score to the ledger, a progress entry
\* with the same question id and score is appended in the same round.
C15_ScoreHasProgressEntry ==
    [][(ResponseCheckStep /\ LedgerSize(scores') > LedgerSize(scores))
          => /\ Len(progress') = Len(progress) + 1
             /\ CurrentQuestionIdx # None
             /\ progress'[Len(progress')].question_idx = CurrentQuestionIdx
             /\ LedgerList(scores', Val(CurrentQuestionIdx)) =
                    Append(LedgerList(scores, Val(CurrentQuestionIdx)),
                           progress'[Len(progress')].score)]_vars

\* s is an initial part of t.
IsPrefix(s, t) == Len(s) <= Len(t) /\ SubSeq(t, 1, Len(s)) = s

\* C16: the progress log is append-only: across loop operations, interrupts,
\* restarts, resets and recoveries from unparsable files, every progress log
\* persisted earlier is a prefix of the progress log persisted later.
C16_ProgressLogAppendOnly ==
    [][Parsable(progress_file')
          => IsPrefix(persisted_log, Val(progress_file'))]_vars

\* C17: a start with the reset flag leaves the persisted progress log as it
\* was, while the session state is the default one (not waiting, empty
\* recency buffer, no question in flight) and the score ledger is empty when
\* the first iteration begins.
C17_ResetKeepsProgress ==
    [][event' = "restart_reset"
          => /\ progress_file' = progress_file
             /\ progress' = LoadProgress(progress_file)
             /\ state' = DefaultState
             /\ scores' = <<>>
             /\ state_file' = None
             /\ scores_file' = None
             /\ pc' = "top"]_vars

\* C17 witness: a reset start after a graded round: the history is kept, the
\* ledger and the session are fresh.
C17_ResetAfterGradedRound ==
    /\ event = "restart_reset"
    /\ Parsable(progress_file)
    /\ Val(progress_file) # <<>>
    /\ progress = Val(progress_file)
    /\ scores = <<>>
    /\ state = DefaultState

\* A start of the process that finds a state file json.load can parse.
RestartFromParsableState == runs' = runs + 1 /\ Parsable(state_file')

\* C18: after a restart from a parsable state file, also one saved while a
\* question was outstanding, the session is not waiting, current_question,
\* current_answer, sent_message_id and sent_message_timestamp are null,
\* thread_id and last_question_time are the saved ones, and the first
\* iteration of the loop attempts a send.
C18_RestartClearsWait ==
    /\ [][RestartFromParsableState
            => /\ ~Waiting(state')
               /\ CurrentQuestion' = None
               /\ CurrentAnswer' = None
               /\ SentMessageId' = None
               /\ Get(state', "sent_message_timestamp") = None
               /\ ThreadId' = Get(Val(state_file'), "thread_id")
               /\ LastQuestionTime' = Get(Val(state_file'), "last_question_time")
               /\ C6_Eligible'
               /\ pc' = "top"]_vars
    /\ [][(SendCheckStep /\ event \in Startups /\ Parsable(state_file))
            => SendAttempted]_vars

\* C18 witness: the process was started again from a state file saved while
\* a question was outstanding, and its first iteration sent a question into
\* the saved thread.
C18_RestartedMidWait ==
    /\ runs = 2
    /\ event = "send_ok"
    /\ Len(ServiceMessages) = 2
    /\ InboundMessages = <<>>
    /\ ServiceMessages[2].threadId = ServiceMessages[1].threadId
    /\ ServiceMessages[2].internalDate - ServiceMessages[1].internalDate < IntervalMs

\* A step in which the service hands a message to the messaging channel.
ServiceSends ==
    /\ Len(mailbox') = Len(mailbox) + 1
    /\ mailbox'[Len(mailbox')].from \in ServiceFroms

\* A start of the process that finds no state file it can parse: after the
\* reset flag removed it, or because json.load fails on it.
StateLost == runs' = runs + 1 /\ ~Parsable(state_file')

\* C19: once a question was sent and its thread id recorded, thread_id is
\* non-null and the same in every later state, across failed sends, timeouts,
\* graded rounds and every kind of restart, and every later send passes that
\* thread id to the messaging channel.
C19_ThreadIdFixed ==
    /\ [][ThreadId # None => ThreadId' = ThreadId]_vars
    /\ [][(ServiceSends /\ ThreadId # None)
            => mailbox'[Len(mailbox')].threadId = Val(ThreadId)]_vars

\* C19, amended: a recorded thread_id stays as it is across failed sends,
\* timeouts, graded rounds and restarts that load a parsable state file, and
\* every send passes it on; a start with the reset flag or from an unparsable
\* state file leaves the session without a thread id.
C19_ThreadIdFixedWhileStateKept ==
    /\ [][(ThreadId # None /\ ~StateLost) => ThreadId' = ThreadId]_vars
    /\ [][StateLost => ThreadId' = None]_vars
    /\ [][(ServiceSends /\ ThreadId # None)
            => mailbox'[Len(mailbox')].threadId = Val(ThreadId)]_vars

\* C19 witness: after a graded round and a restart, the next question went
\* into the thread of the first one.
C19_SameThreadAfterRestart ==
    /\ runs = 2
    /\ event = "send_ok"
    /\ progress # <<>>
    /\ Len(ServiceMessages) = 3
    /\ \A i \in 1..3 : Some(ServiceMessages[i].threadId) = ThreadId

----------------------------------------------------------------------------
(* The classifier on its own: a thread, a sent question and a list of sent  *)
(* ids drawn from bounded sets, then one call of _check_for_response.       *)

MaxThread == 3

\* The messages a thread can hold at position id: written by the
\* correspondent or by the service account, at the time of the question or
\* later, with one of two reply texts.
ThreadBodies == {ReplyBody, LaterReply}
MessagesAt(id) ==
    {[id |-> id, threadId |-> 1, internalDate |-> t, from |-> f,
      payload |-> PlainPart(b)] :
        t \in {0, AutomatedMs}, f \in {FromCorrespondent, FromService},
        b \in ThreadBodies}
Threads ==
    UNION {{box \in [1..n -> UNION {MessagesAt(i) : i \in 1..n}] :
               \A i \in 1..n : box[i].id = i} : n \in 1..MaxThread}

\* The lists of sent ids: none, one id, or every id of the thread.
SentIdLists(n) == {<<>>, [i \in 1..n |-> i]} \cup {<<i>> : i \in 1..n}

\* A session waiting for the reply to message sent_id of the thread box.
WaitingOn(box, sent_id, sent_timestamp, ids) ==
    Put(Put(Put(Put(Put(Put(Put(Put(Put(DefaultState,
        "current_question", Some(QuestionText(0))),
        "current_answer", Some(AnswerText(0))),
        "current_question_idx", Some(0)),
        "sent_message_id", Some(sent_id)),
        "sent_message_timestamp", sent_timestamp),
        "thread_id", Some(1)),
        "last_question_time", Some(0)),
        "waiting_for_response", TRUE),
        "sent_message_ids", ids)

ClassifyInit ==
    /\ \E box \in Threads :
          /\ mailbox = box
          /\ next_id = Len(box) + 1
          /\ \E sent_id \in 1..Len(box), sent_timestamp \in {None, Some(0)},
                ids \in SentIdLists(Len(box)) :
                state = WaitingOn(box, sent_id, sent_timestamp, ids)
    /\ num_questions = 1
    /\ scores = <<>>
    /\ progress = <<>>
    /\ state_file = None
    /\ scores_file = None
    /\ progress_file = None
    /\ now = AutomatedMs
    /\ pc = "check"
    /\ event = "thread"
    /\ selections = <<0>>
    /\ since_reset = <<0>>
    /\ last_delivery = None
    /\ runs = 1
    /\ iterations = 0
    /\ response = None
    /\ persisted_log = <<>>
    /\ model_reply = None
    /\ grade_result = None

\* One call of _check_for_response on the thread.
Classify ==
    /\ event = "thread"
    /\ \E lookup_ok \in BOOLEAN :
          response' = PollResponse(state, mailbox, TRUE, lookup_ok)
    /\ state' = Polled(state)
    /\ event' = "classified"
    /\ UNCHANGED <<model_reply, grade_result,
                   num_questions, scores, progress, state_file, scores_file,
                   progress_file, mailbox, next_id, now, pc, selections,
                   since_reset, last_delivery, runs, iterations, persisted_log>>

ClassifyNext == Classify

SpecClassify == ClassifyInit /\ [][ClassifyNext]_vars

\* The ids _check_for_response excludes: the sent ids of the session and the
\* id of the question in flight.
ExcludedIds == Range(SentMessageIds) \cup {Val(SentMessageId)}

\* The text check_for_response would return for a message of the thread.
ResponseTextOf(message) == Cleaned(ExtractMessageText(message))

\* C20: the classifier never returns the text of a message whose id is among
\* the excluded ids or is the id of the sent question, whatever the thread
\* holds and in whatever order: the text returned is that of a message that
\* is not excluded, and no excluded message with a text of its own has it.
C20_NeverReturnsExcluded ==
    (event = "classified" /\ response # None)
       => /\ \E k \in 1..Len(mailbox) :
                /\ mailbox[k].id \notin ExcludedIds
                /\ ResponseTextOf(mailbox[k]) = Val(response)
          /\ \A k \in 1..Len(mailbox) :
                (/\ mailbox[k].id \in ExcludedIds
                 /\ \A j \in 1..Len(mailbox) :
                       j # k => ResponseTextOf(mailbox[j]) # ResponseTextOf(mailbox[k]))
                   => ResponseTextOf(mailbox[k]) # Val(response)

\* C20 witness: the first message of the thread would pass every other test
\* but is an excluded one, not the question, and the classifier returned the
\* text of a later message.
C20_ExcludedSkipped ==
    /\ event = "classified"
    /\ Len(mailbox) = MaxThread
    /\ mailbox[1].id \in ExcludedIds
    /\ mailbox[1].id # Val(SentMessageId)
    /\ mailbox[1].from = FromCorrespondent
    /\ mailbox[1].internalDate = AutomatedMs
    /\ ResponseTextOf(mailbox[1]) = ReplyBody
    /\ response = Some(LaterReply)

----------------------------------------------------------------------------
(* The classifier on the thread of a question sent at time 0: the question  *)
(* is the first message, and what follows it arrives at times around the    *)
(* 2 s buffer and the 10 s threshold, from the correspondent or a stranger. *)

MaxArrivals == 2

ArrivalsAt(id) ==
    {[id |-> id, threadId |-> 1, internalDate |-> t, from |-> f,
      payload |-> PlainPart(b)] :
        t \in {1500, buffer_ms, 3000, AutomatedMs - 1, AutomatedMs, 2 * AutomatedMs},
        f \in {FromCorrespondent, FromStranger},
        b \in ThreadBodies}
QuestionThreads ==
    UNION {{box \in [1..(n + 1) -> {QuestionMessage(DefaultState, 0, 1, 0)}
                                      \cup UNION {ArrivalsAt(i) : i \in 2..(n + 1)}] :
               \A i \in 1..(n + 1) : box[i].id = i} : n \in 1..MaxArrivals}

TimesInit ==
    /\ \E box \in QuestionThreads :
          /\ mailbox = box
          /\ next_id = Len(box) + 1
          /\ \E sent_timestamp \in {None, Some(0)} :
                state = WaitingOn(box, 1, sent_timestamp, <<1>>)
    /\ num_questions = 1
    /\ scores = <<>>
    /\ progress = <<>>
    /\ state_file = None
    /\ scores_file = None
    /\ progress_file = None
    /\ now = 2 * AutomatedMs
    /\ pc = "check"
    /\ event = "thread"
    /\ selections = <<0>>
    /\ since_reset = <<0>>
    /\ last_delivery = None
    /\ runs = 1
    /\ iterations = 0
    /\ response = None
    /\ persisted_log = <<>>
    /\ model_reply = None
    /\ grade_result = None

SpecTimes == TimesInit /\ [][ClassifyNext]_vars

\* The time between the sent question and a message of the thread, as the
\* classifier computes it (the question of these threads is sent at time 0).
TimeDiff(message) == message.internalDate - mailbox[1].internalDate

\* A message with a text no other message of the thread has.
OnlyOneWith(k) ==
    \A j \in 1..Len(mailbox) :
       j # k => ResponseTextOf(mailbox[j]) # ResponseTextOf(mailbox[k])

\* C21: the classifier never returns a message whose timestamp is at most
\* 2000 ms after the sent timestamp, nor one less than 10000 ms after it even
\* from the expected address: the text returned is that of a message at
\* least 10000 ms after the question, and no earlier message with a text of
\* its own has it.
C21_NeverReturnsEarly ==
    (event = "classified" /\ response # None)
       => /\ \E k \in 1..Len(mailbox) :
                /\ ResponseTextOf(mailbox[k]) = Val(response)
                /\ TimeDiff(mailbox[k]) > buffer_ms
                /\ TimeDiff(mailbox[k]) >= AutomatedMs
          /\ \A k \in 1..Len(mailbox) :
                (OnlyOneWith(k) /\ TimeDiff(mailbox[k]) < AutomatedMs)
                   => ResponseTextOf(mailbox[k]) # Val(response)

\* C21 witness: the correspondent's message 9999 ms after the question was
\* passed over and the one 10000 ms after it was returned.
C21_ThresholdMet ==
    /\ event = "classified"
    /\ Len(mailbox) = 3
    /\ mailbox[2].from = FromCorrespondent
    /\ TimeDiff(mailbox[2]) = AutomatedMs - 1
    /\ ResponseTextOf(mailbox[2]) = LaterReply
    /\ mailbox[3].from = FromCorrespondent
    /\ TimeDiff(mailbox[3]) = AutomatedMs
    /\ response = Some(ReplyBody)

\* The From header of a message, lower-cased, contains the lower-cased
\* address of the correspondent.
FromHasTarget(message) == Contains(Lower(message.from), Lower(TARGET_EMAIL))

\* C22: the classifier never returns a message whose lower-cased From field
\* does not contain the lower-cased address of the correspondent: the text
\* returned is that of a message from that address, and no message from
\* elsewhere with a text of its own has it.
C22_NeverReturnsStranger ==
    (event = "classified" /\ response # None)
       => /\ \E k \in 1..Len(mailbox) :
                /\ ResponseTextOf(mailbox[k]) = Val(response)
                /\ FromHasTarget(mailbox[k])
          /\ \A k \in 1..Len(mailbox) :
                (OnlyOneWith(k) /\ ~FromHasTarget(mailbox[k]))
                   => ResponseTextOf(mailbox[k]) # Val(response)

\* C22 witness: a stranger's message, late enough to be a reply, was passed
\* over and the correspondent's later message was returned.
C22_StrangerSkipped ==
    /\ event = "classified"
    /\ Len(mailbox) = 3
    /\ mailbox[2].from = FromStranger
    /\ TimeDiff(mailbox[2]) = AutomatedMs
    /\ ResponseTextOf(mailbox[2]) = LaterReply
    /\ mailbox[3].from = FromCorrespondent
    /\ response = Some(ReplyBody)

\* A thread that holds, after the question, one reply from the correspondent
\* that is not excluded and passes the checks on its text, classified.
OneReplyClassified ==
    /\ event = "classified"
    /\ Len(mailbox) = 2
    /\ mailbox[2].from = FromCorrespondent

\* C23: such a reply is rejected when it arrives 1500 ms after the send
\* timestamp and is accepted and returned when it arrives 3000 ms after it.
C23_AcceptedAfterBuffer ==
    OneReplyClassified
       => /\ TimeDiff(mailbox[2]) = 1500 => response = None
          /\ TimeDiff(mailbox[2]) = 3000
                => response = Some(ResponseTextOf(mailbox[2]))

\* C23, amended: such a reply is rejected when it arrives 1500 ms after the
\* send timestamp, is rejected as well when it arrives 3000 ms after it
\* (past the 2000 ms buffer but under the 10000 ms threshold), and is
\* accepted and returned when it arrives 10000 ms after it.
C23_AcceptedAfterThreshold ==
    OneReplyClassified
       => /\ TimeDiff(mailbox[2]) = 1500 => response = None
          /\ TimeDiff(mailbox[2]) = 3000 => response = None
          /\ TimeDiff(mailbox[2]) = AutomatedMs
                => response = Some(ResponseTextOf(mailbox[2]))

\* C23 witness: the body that was rejected at 1500 ms and 3000 ms is
\* returned when it arrives 10000 ms after the question.
C23_ReplyAtThreshold ==
    /\ OneReplyClassified
    /\ TimeDiff(mailbox[2]) = AutomatedMs
    /\ ExtractMessageText(mailbox[2]) = LaterReply
    /\ response = Some(LaterReply)

\* The messages of the thread that pass every check of the classifier: here
\* those from the correspondent at least 10000 ms after the question.
Passing ==
    {k \in 2..Len(mailbox) :
        FromHasTarget(mailbox[k]) /\ TimeDiff(mailbox[k]) >= AutomatedMs}

\* C24: when several messages of the thread pass all checks, the classifier
\* returns the one with the greatest delivery timestamp, in whatever order
\* the thread is listed; when none passes it returns none.
C24_NewestPassingReturned ==
    event = "classified"
       => IF Passing = {} THEN response = None
          ELSE \E k \in Passing :
                  /\ \A j \in Passing :
                        mailbox[k].internalDate >= mailbox[j].internalDate
                  /\ response = Some(ResponseTextOf(mailbox[k]))

----------------------------------------------------------------------------
(* Claims about the mail of the service, startup and failures               *)

\* C25: across any sequence of rounds, also more than 10 of them (old ids
\* leave sent_message_ids) and also when the mail of the service carries the
\* correspondent's address as sender, no question and no feedback message of
\* the service is accepted by the classifier and graded as the reply to the
\* outstanding question: what is returned is the text of a message that was
\* not sent by the service.
C25_ServiceMailNeverGraded ==
    [][(ResponseCheckStep /\ response' # None)
          => /\ \A k \in 1..Len(mailbox) :
                   mailbox[k].from \in ServiceFroms
                      => ResponseTextOf(mailbox[k]) # Val(response')
             /\ \E k \in 1..Len(mailbox) :
                   /\ mailbox[k].from \notin ServiceFroms
                   /\ ResponseTextOf(mailbox[k]) = Val(response')]_vars

\* C25 witness: a round is graded when the id of the first question has left
\* sent_message_ids and the mail of the service carries the correspondent's
\* address.
C25_GradedAfterEviction ==
    /\ event = "graded"
    /\ mailbox[1].from = FromOwnAccount
    /\ FromHasTarget(mailbox[1])
    /\ mailbox[1].id \notin Range(SentMessageIds)
    /\ Len(progress) > SENT_IDS_CAP \div 2

\* C26: after a startup against a reloaded bank of any size, no field of the
\* session refers to an id outside the bank: every id of recent_questions
\* and current_question_idx, when not null, is among the ids of the bank,
\* whatever state file an earlier run wrote.
C26_IdsInBankAfterStartup ==
    event \in Startups
       => /\ Range(RecentQuestions) \subseteq BankIds(num_questions)
          /\ CurrentQuestionIdx # None
                => Val(CurrentQuestionIdx) \in BankIds(num_questions)

\* A file that is there and that json.load cannot parse.
BadFile(file) == file # None /\ ~Parsable(file)

\* A start of the process, with every required setting and file, that finds
\* one of its three files unparsable.
StartsOnBadFile ==
    /\ runs' = runs + 1
    /\ event' \notin MissingAtStartup
    /\ BadFile(state_file') \/ BadFile(scores_file') \/ BadFile(progress_file')

\* C27: when the state file, the scores file or the progress file is
\* unparsable at startup, that store starts from its default (the default
\* session dict, an empty ledger, an empty log), the other stores hold what
\* their files hold, and the start goes on into the loop.
C27_BadFileRecovered ==
    [][StartsOnBadFile
          => /\ pc' = "top"
             /\ BadFile(state_file') => state' = DefaultState
             /\ BadFile(scores_file') => scores' = <<>>
             /\ BadFile(progress_file') => progress' = <<>>
             /\ Parsable(state_file')
                   => state' = LoadQuestions(LoadState(state_file'), num_questions')
             /\ Parsable(scores_file') => scores' = Val(scores_file')
             /\ Parsable(progress_file') => progress' = Val(progress_file')]_vars

\* C28: when a required setting or file is missing (the grader's API key,
\* the correspondent's address, the credentials file, the question file),
\* the process ends without an iteration of the loop: no question is
\* selected or sent and no persisted store is modified.
C28_MissingSettingTouchesNothing ==
    [][event' \in MissingAtStartup
          => /\ pc' = "stopped"
             /\ selections' = selections
             /\ mailbox' = mailbox
             /\ state_file' = state_file
             /\ scores_file' = scores_file
             /\ progress_file' = progress_file]_vars

\* A step of the loop in which an external call fails: the send, the listing
\* of the thread, or the delivery of the feedback; and a graded round whose
\* score is the one grade_response returns when the grader's call fails.
\* (A failed lookup of the sent message is one of the two ways each poll of
\* the thread is taken.)
ExternalCallFailed ==
    \/ event' \in {"send_fail", "poll_failed", "grade_failed"}
    \/ /\ event' = "graded"
       /\ progress'[Len(progress')].score = FallbackScore

\* C29: no failure of an external call ends the loop: after a failed send, a
\* failed poll of the thread, a failed lookup of the sent message, a failed
\* grader call or a failed feedback delivery the loop is at a place from
\* which it goes on to its next iteration; a failed poll counts as no
\* response and leaves the session as it was, still waiting.
C29_FailuresKeepLoopRunning ==
    /\ [][ExternalCallFailed => pc' \in {"check", "sleep"}]_vars
    /\ [][(pc \in {"top", "check", "sleep"} /\ runs' = runs /\ event' # "interrupt")
            => pc' \in {"top", "check", "sleep"}]_vars
    /\ [][event' = "poll_failed"
            => /\ response' = None
               /\ state' = state
               /\ Waiting(state')
               /\ state_file' = state_file]_vars

\* C29 witness: after a failed send, the next iteration sent the question and
\* its poll failed; the session is still waiting.
C29_PollFailedAfterSendFailed ==
    /\ event = "poll_failed"
    /\ Waiting(state)
    /\ Len(selections) = 2
    /\ Len(ServiceMessages) = 1
    /\ iterations = 1
    /\ runs = 1

----------------------------------------------------------------------------
(* Claims about the average score                                           *)

\* The fraction avg is the arithmetic mean of the list: the deviations of the
\* entries from it add up to nothing.
IsMeanOf(avg, list) ==
    /\ avg[2] > 0
    /\ SumSeq([i \in 1..Len(list) |-> avg[2] * list[i] - avg[1]]) = 0

\* The fraction avg is the whole number v
IsNumber(avg, v) == avg[2] > 0 /\ avg[1] = v * avg[2]

\* The ledger with an empty list under idx, as a scores file can hold it
WithEmptyList(sc, idx) == Put(sc, idx, <<>>)

\* C30: the average score of an id is the arithmetic mean of the scores
\* recorded for it when there is at least one ([80, 60] gives 70), and 100
\* when the id has no recorded scores or an empty list of them.
C30_AverageIsMeanOrPerfect ==
    \A idx \in BankIds(num_questions) :
        /\ (idx \in DOMAIN scores /\ Len(scores[idx]) > 0)
              => IsMeanOf(GetAverageScore(scores, idx), scores[idx])
        /\ (idx \in DOMAIN scores /\ scores[idx] = <<80, 60>>)
              => IsNumber(GetAverageScore(scores, idx), 70)
        /\ idx \notin DOMAIN scores
              => IsNumber(GetAverageScore(scores, idx), 100)
        /\ IsNumber(GetAverageScore(WithEmptyList(scores, idx), idx), 100)

\* C30 witness: the selector has drawn from a ledger in which one id has the
\* scores [80, 60] and another has none.
C30_MeanAndDefaultUsed ==
    /\ Len(selections) >= 1
    /\ \E idx \in DOMAIN scores : scores[idx] = <<80, 60>>
    /\ \E idx \in BankIds(num_questions) : idx \notin DOMAIN scores

----------------------------------------------------------------------------
(* The grader on its own: grade_response on every reply of the model       *)

MaxItems == 3   \* entries of a JSON array, words of a JSON string, in a reply

\* JSON values, as json.loads builds them
JsonNull == [type |-> "null"]
JsonNumber(v) == [type |-> "number", value |-> v]
JsonString(words) == [type |-> "string", words |-> words]
JsonArray(items) == [type |-> "array", items |-> items]
JsonObject(items) == [type |-> "object", items |-> items]

ResultKeys == {"score", "feedback", "missing_points"}
SeqsUpTo(S, n) == UNION {[1..k -> S] : k \in 0..n}

\* The objects of a reply: any of the three fields may be missing, the score
\* is a number or null
ScoreJson == {JsonNumber(sc) : sc \in ScoreValues} \cup {JsonNull}
FieldJson(key) ==
    CASE key = "score" -> ScoreJson
      [] key = "feedback" -> {JsonString(<<"good">>)}
      [] key = "missing_points" -> {JsonArray(<<>>)}
ReplyObjects ==
    UNION {{JsonObject(f) : f \in {g \in [K -> ScoreJson \cup FieldJson("feedback")
                                               \cup FieldJson("missing_points")] :
                                     \A key \in K : g[key] \in FieldJson(key)}} :
           K \in SUBSET ResultKeys}
ReplyJson ==
    ReplyObjects
    \cup {JsonArray(items) : items \in SeqsUpTo(ResultKeys, MaxItems)}
    \cup {JsonString(words) : words \in SeqsUpTo(ResultKeys, MaxItems)}
    \cup {JsonNumber(7), JsonNull}

\* What generate_content does: it raises, or it answers a text, bare or in a
\* fence, that is a JSON document or is not
NotJson == [type |-> "not json"]
Fences == {"bare", "json fence", "fence"}
Raised == [raised |-> TRUE]
Replied(fence, body) == [raised |-> FALSE, fence |-> fence, body |-> body]
ModelReplies ==
    {Raised} \cup {Replied(fence, body) : fence \in Fences, body \in ReplyJson \cup {NotJson}}

\* response_text after the fence is cut away
ResponseText(reply) == reply.body

\* 'key' in result: a key of a dict, an entry of a list, a part of a str
HasKey(result, key) ==
    CASE result.type = "object" -> key \in DOMAIN result.items
      [] result.type = "array" -> \E i \in 1..Len(result.items) : result.items[i] = key
      [] result.type = "string" -> \E i \in 1..Len(result.words) : result.words[i] = key

\* the dict of the except branch
FallbackResult ==
    JsonObject([key \in ResultKeys |->
        CASE key = "score" -> JsonNumber(FallbackScore)
          [] key = "feedback" -> JsonString(<<"Error", "grading", "response">>)
          [] key = "missing_points" -> JsonArray(<<>>)])

\* "Validate structure" on a dict
WithDefaults(result) ==
    JsonObject([key \in ResultKeys |->
        IF key \in DOMAIN result.items THEN result.items[key]
        ELSE CASE key = "score" -> JsonNumber(FallbackScore)
               [] key = "feedback" -> JsonString(<<"Unable", "to", "generate">>)
               [] key = "missing_points" -> JsonArray(<<>>)])

\* grade_response: the value returned for a reply of the model
GradeResponse(reply) ==
    IF reply.raised THEN FallbackResult
    ELSE LET result == ResponseText(reply)
         IN  CASE result.type = "not json" -> FallbackResult
               [] result.type \in {"number", "null"} -> FallbackResult
               [] result.type = "object" -> WithDefaults(result)
               [] result.type \in {"array", "string"} ->
                     IF \A key \in ResultKeys : HasKey(result, key)
                     THEN result ELSE FallbackResult

GradeInit ==
    /\ \E reply \in ModelReplies : model_reply = Some(reply)
    /\ grade_result = None
    /\ num_questions = 1
    /\ state = DefaultState
    /\ scores = <<>>
    /\ progress = <<>>
    /\ state_file = None
    /\ scores_file = None
    /\ progress_file = None
    /\ mailbox = <<>>
    /\ next_id = 1
    /\ now = 0
    /\ pc = "check"
    /\ event = "generate_content"
    /\ selections = <<>>
    /\ since_reset = <<>>
    /\ last_delivery = None
    /\ runs = 1
    /\ iterations = 0
    /\ response = None
    /\ persisted_log = <<>>

\* One call of grade_response, from the reply of the model to the return
Grade ==
    /\ event = "generate_content"
    /\ grade_result' = Some(GradeResponse(Val(model_reply)))
    /\ event' = "grade_response"
    /\ UNCHANGED <<model_reply, num_questions, state, scores, progress, state_file,
                   scores_file, progress_file, mailbox, next_id, now, pc, selections,
                   since_reset, last_delivery, runs, iterations, response,
                   persisted_log>>

GradeNext == Grade

SpecGrade == GradeInit /\ [][GradeNext]_vars

\* The reply holds no score: the call raised, the text is no JSON document,
\* the document is no object, or the object has no score field
NoScoreObtained(reply) ==
    \/ reply.raised
    \/ reply.body.type # "object"
    \/ "score" \notin DOMAIN reply.body.items

\* A result with the three fields
HasResultFields(result) ==
    /\ result.type = "object"
    /\ ResultKeys \subseteq DOMAIN result.items

\* C31: grade_response never hands a failure on: whatever the model did (the
\* call raised, the text is not JSON, the JSON is not an object, fields are
\* missing), it returns a result with score, feedback and missing_points,
\* and the score is 50 when none could be obtained.
C31_GradeAlwaysReturnsResult ==
    grade_result # None
       => /\ HasResultFields(Val(grade_result))
          /\ NoScoreObtained(Val(model_reply))
                => Val(grade_result).items["score"] = JsonNumber(FallbackScore)

----------------------------------------------------------------------------
(* Claims about the selector on an empty bank and about the weights         *)

\* C32: a call of the selector on an empty bank ends in an error and returns
\* no question id; the recency buffer gains no entry.
C32_EmptyBankIsAnError ==
    /\ [][num_questions = 0
            => /\ event' = "select_error"
               /\ pc' = "stopped"
               /\ selections' = selections
               /\ Len(RecentQuestions') <= Len(RecentQuestions)]_vars
    /\ [][event' = "select_error" => num_questions = 0]_vars

\* C32 witness: the selector was called on the empty bank and raised.
C32_RaisedOnEmptyBank ==
    /\ num_questions = 0
    /\ event = "select_error"
    /\ selections = <<>>
    /\ RecentQuestions = <<>>

\* The candidates of a selector call in the present state
Candidates == Range(Available(state, num_questions))

\* Fractions <<num, den>> with positive denominators, compared
Less(a, b) == a[1] * b[2] < b[1] * a[2]
AtMost(a, b) == a[1] * b[2] <= b[1] * a[2]

\* (101 - avg) squared, for the fraction avg
SquaredDistance(avg) ==
    <<(WeightBase * avg[2] - avg[1]) * (WeightBase * avg[2] - avg[1]), avg[2] * avg[2]>>

----------------------------------------------------------------------------
(* The classifier on threads in which the correspondent repeats the question *)

\* The question in flight: one of the bank's usual questions or a short one
SentQuestions ==
    {QuestionMessage(DefaultState, 0, 1, 0),
     [QuestionMessage(DefaultState, 0, 1, 0) EXCEPT !.payload = PlainPart(ShortQuestion)]}

\* Mail of the correspondent, late enough to be read: an answer, or the text
\* of the question again
RepeatsAt(id, question) ==
    {[id |-> id, threadId |-> 1, internalDate |-> t, from |-> FromCorrespondent,
      payload |-> PlainPart(b)] :
        t \in {AutomatedMs, 2 * AutomatedMs},
        b \in ThreadBodies \cup {ExtractMessageText(question)}}
RepeatThreads ==
    UNION {{box \in [1..(n + 1) -> {question} \cup UNION {RepeatsAt(i, question) : i \in 2..(n + 1)}] :
               \A i \in 1..(n + 1) : box[i].id = i} :
           n \in 1..MaxArrivals, question \in SentQuestions}

RepeatsInit ==
    /\ \E box \in RepeatThreads :
          /\ mailbox = box
          /\ next_id = Len(box) + 1
          /\ \E sent_timestamp \in {None, Some(0)} :
                state = WaitingOn(box, 1, sent_timestamp, <<1>>)
    /\ num_questions = 1
    /\ scores = <<>>
    /\ progress = <<>>
    /\ state_file = None
    /\ scores_file = None
    /\ progress_file = None
    /\ now = 2 * AutomatedMs
    /\ pc = "check"
    /\ event = "thread"
    /\ selections = <<0>>
    /\ since_reset = <<0>>
    /\ last_delivery = None
    /\ runs = 1
    /\ iterations = 0
    /\ response = None
    /\ persisted_log = <<>>
    /\ model_reply = None
    /\ grade_result = None

SpecRepeats == RepeatsInit /\ [][ClassifyNext]_vars

----------------------------------------------------------------------------
(* The classifier on a reply that is a tree of parts                        *)

MaxParts == 2   \* parts of a multipart part, on each of its two levels

HtmlPart(html) == [mimeType |-> "text/html", data |-> html, parts |-> <<>>]
Multipart(parts) == [mimeType |-> "multipart/alternative", data |-> <<>>, parts |-> parts]

\* LaterReply as a mail client marks it up
HtmlReply == <<"<", "b", ">">> \o LaterReply \o <<"<", "/", "b", ">">>

\* Leaves: a plain-text part with data and one without, an HTML part
LeafParts == {PlainPart(ReplyBody), PlainPart(<<>>), HtmlPart(HtmlReply)}
NonEmptySeqs(S, n) == UNION {[1..k -> S] : k \in 1..n}
InnerParts == LeafParts \cup {Multipart(parts) : parts \in NonEmptySeqs(LeafParts, MaxParts)}
Payloads == InnerParts \cup {Multipart(parts) : parts \in NonEmptySeqs(InnerParts, MaxParts)}

PartThreads ==
    {<<QuestionMessage(DefaultState, 0, 1, 0),
       [id |-> 2, threadId |-> 1, internalDate |-> t, from |-> FromCorrespondent,
        payload |-> payload]>> :
        t \in {AutomatedMs, 2 * AutomatedMs}, payload \in Payloads}

PartsInit ==
    /\ \E box \in PartThreads :
          /\ mailbox = box
          /\ next_id = Len(box) + 1
          /\ state = WaitingOn(box, 1, Some(0), <<1>>)
    /\ num_questions = 1
    /\ scores = <<>>
    /\ progress = <<>>
    /\ state_file = None
    /\ scores_file = None
    /\ progress_file = None
    /\ now = 2 * AutomatedMs
    /\ pc = "check"
    /\ event = "thread"
    /\ selections = <<0>>
    /\ since_reset = <<0>>
    /\ last_delivery = None
    /\ runs = 1
    /\ iterations = 0
    /\ response = None
    /\ persisted_log = <<>>
    /\ model_reply = None
    /\ grade_result = None

SpecParts == PartsInit /\ [][ClassifyNext]_vars

----------------------------------------------------------------------------
(* Claims about the quoted question and the parts of a message              *)

\* The text holds more than 80% of the distinct first 10 words of the question
SharesQuestionWords(text, question_text) ==
    LET question_words == Range(Take(WordsOf(Lowered(question_text)), SnippetWords))
        words == Range(WordsOf(Lowered(text)))
    IN  OverlapDen * Cardinality(question_words \cap words)
           > OverlapNum * Cardinality(question_words)

\* C34: the classifier never returns a message whose cleaned text shares more
\* than 80% of the distinct first 10 words of the text of the question, also
\* when the lookup of the sent message fails or the question text is short.
C34_QuotedQuestionNeverReturned ==
    (event = "classified" /\ response # None)
       => ~SharesQuestionWords(Val(response), ExtractMessageText(mailbox[1]))

\* The data of the plain-text leaves of a tree of parts, and the tag-stripped
\* data of its HTML leaves
RECURSIVE PlainData(_)
PlainData(part) ==
    IF part.mimeType = "text/plain" /\ part.data # <<>> THEN {part.data}
    ELSE UNION {PlainData(part.parts[k]) : k \in 1..Len(part.parts)}
RECURSIVE HtmlData(_)
HtmlData(part) ==
    IF part.mimeType = "text/html" /\ part.data # <<>> THEN {StripTags(part.data)}
    ELSE UNION {HtmlData(part.parts[k]) : k \in 1..Len(part.parts)}

\* C35: the text extracted from a tree of parts is the content of a
\* plain-text leaf whenever the tree has a plain-text leaf with data, in
\* whatever order sibling parts stand; the tag-stripped content of an HTML
\* leaf is returned only when the tree has no plain-text leaf with data.
C35_PlainTextPreferred ==
    event = "classified"
       => LET payload == mailbox[2].payload
              text == ExtractMessageText(mailbox[2])
          IN  /\ PlainData(payload) # {} => text \in PlainData(payload)
              /\ (text \in HtmlData(payload) /\ response = Some(Cleaned(text)))
                    => PlainData(payload) = {}

----------------------------------------------------------------------------
(* Claims about what is saved, failed sends and the scores of a question    *)

\* The loop is at the end of an iteration (before the sleep, or at the
\* "continue" of the timeout), or the process was stopped by an interrupt
IterationEnded == pc = "sleep" \/ event = "timeout" \/ event = "interrupt"

C37_FailedSendKeepsSelection ==
    [][event' = "send_fail"
         => /\ Len(selections') = Len(selections) + 1
            /\ RecentQuestions' # <<>>
            /\ RecentQuestions'[Len(RecentQuestions')] = selections'[Len(selections')]
            /\ ThreadId' = ThreadId
            /\ LastQuestionTime' = LastQuestionTime
            /\ CurrentQuestion' = CurrentQuestion
            /\ CurrentAnswer' = CurrentAnswer
            /\ CurrentQuestionIdx' = CurrentQuestionIdx
            /\ SentMessageIds' = SentMessageIds
            /\ scores' = scores
            /\ progress' = progress
            /\ scores_file' = scores_file
            /\ progress_file' = progress_file]_vars

\* C37 witness: a question went out, its round ended without an accepted
\* feedback, and the delivery of the next one failed: the session keeps the
\* thread and the fields of the earlier question, and the buffer ends with
\* the id just chosen.
C37_FailedAfterDelivery ==
    /\ event = "send_fail"
    /\ ThreadId # None
    /\ CurrentQuestion # None
    /\ Len(SentMessageIds) >= 1
    /\ Len(selections) >= 2
    /\ RecentQuestions[Len(RecentQuestions)] = selections[Len(selections)]

\* The positions of the delivered questions in the mailbox
QuestionsDelivered ==
    {k \in 1..Len(mailbox) :
        /\ mailbox[k].from \in ServiceFroms
        /\ \E i \in 0..(WideBank + 1) : ExtractMessageText(mailbox[k]) = QuestionText(i)}

\* The progress entries written after the delivery at position k and not
\* after the next delivery (a reply is read 10 s after its question at the
\* earliest, and a restarted process may send at the time of the last entry)
EntriesAfter(k) ==
    {j \in 1..Len(progress) :
        /\ progress[j].timestamp > mailbox[k].internalDate
        /\ \A m \in QuestionsDelivered :
              m > k => progress[j].timestamp <= mailbox[m].internalDate}

\* C38: between two consecutive successful deliveries of a question, and
\* after the last one, at most one score is appended to the ledger and at
\* most one entry to the progress log: a score or an entry is only appended
\* while the session waits, one at a time, the session stops waiting in the
\* same step, and only a successful delivery makes it wait again.
C38_OneGradingPerDelivery ==
    /\ [](\A k \in QuestionsDelivered : Cardinality(EntriesAfter(k)) <= 1)
    /\ [][LedgerSize(scores') > LedgerSize(scores)
            => /\ LedgerSize(scores') = LedgerSize(scores) + 1
               /\ Waiting(state) /\ ~Waiting(state')]_vars
    /\ [][Len(progress') > Len(progress)
            => /\ Len(progress') = Len(progress) + 1
               /\ Waiting(state) /\ ~Waiting(state')]_vars
    /\ [][(~Waiting(state) /\ Waiting(state')) => event' = "send_ok"]_vars

\* C38 witness: two questions were delivered and each was graded once.
C38_TwoDeliveriesTwoGradings ==
    /\ Cardinality(QuestionsDelivered) = 2
    /\ Len(progress) = 2
    /\ LedgerSize(scores) = 2
    /\ \A k \in QuestionsDelivered : Cardinality(EntriesAfter(k)) = 1
    /\ ~Waiting(state)

\* The id of the question of the most recent successful delivery
LastDeliveredId ==
    LET last == CHOOSE k \in QuestionsDelivered : \A m \in QuestionsDelivered : m <= k
    IN  CHOOSE i \in 0..(WideBank + 1) : ExtractMessageText(mailbox[last]) = QuestionText(i)

\* C39: every score appended to the ledger is stored under the id of the
\* question delivered by the most recent successful send, never under an id
\* selected for an attempt whose delivery failed nor under the id of an
\* earlier question that timed out.
C39_ScoreUnderDeliveredId ==
    [][LedgerSize(scores') > LedgerSize(scores)
         => /\ QuestionsDelivered # {}
            /\ Len(LedgerList(scores', LastDeliveredId))
                  = Len(LedgerList(scores, LastDeliveredId)) + 1
            /\ \A i \in (DOMAIN scores \cup DOMAIN scores') \ {LastDeliveredId} :
                  LedgerList(scores', i) = LedgerList(scores, i)]_vars

\* C39 witness: an id was selected for an attempt that failed, another id was
\* then delivered, and the one score of the ledger is under the delivered id.
C39_ScoredAfterFailedAttempt ==
    /\ event = "graded"
    /\ QuestionsDelivered # {}
    /\ DOMAIN scores = {LastDeliveredId}
    /\ Len(selections) >= 2
    /\ selections[1] # LastDeliveredId
    /\ Cardinality(QuestionsDelivered) = 1

====
